---- MODULE Spec2Model ----
(***************************************************************************)
(* Review Notes (aikaisi/review-notes): the Note Store (noteStorage.ts),   *)
(* its helpers (utils.ts) and the wiring of extension.ts, as a state       *)
(* machine.  A path string is a tuple of one-character strings, so that    *)
(* normalizeFilePath and getRelativePath work on characters as the code    *)
(* does.  Time is in milliseconds.                                         *)
(***************************************************************************)
EXTENDS Integers, Sequences, FiniteSets, TLC

\* ------------------------------------------------------------------ bounds
\* The clock stops after MaxTicks steps of TickStep ms.
MaxTicks == 4
\* The clock advances in steps of SaveDelay / TicksPerDelay ms.
TicksPerDelay == 2
\* Notes one Index may hold.
MaxNotes == 2
\* Notes one Index may hold in the specifications where the clock runs.
MaxTimedNotes == 1
\* Physical writes of one Store that may be in progress together.
MaxWrites == 2
\* load() calls of one Store that may be in progress together.
MaxLoads == 1
\* Reloads of one Store in flight at once when change events come in a burst.
MaxBurst == 2
\* File-watch events of one Store not yet handled.
MaxEvents == 1
\* Store instances constructed in one run.
MaxStores == 2
\* Random suffixes generateId can draw.
MaxRnd == 2
MaxLoose == 2

\* --------------------------------------------------------- program constants
\* debounce(() => this.saveNow(), 500)
SaveDelay == 500

TickStep == SaveDelay \div TicksPerDelay
MaxNow == MaxTicks * TickStep

Stores == 1..MaxStores

Priorities == {"high", "medium", "low"}
Categories == {"todo", "bug", "question", "idea", "note"}
OptionalFields == {"timestamp", "author", "priority", "category"}

\* ------------------------------------------------------------------- paths
\* Workspace roots and files, as absolute paths split into segments.
R1 == <<"r", "1">>
R2 == <<"r", "2">>
Roots == {R1, R2}
NoRoot == <<>>

FileA == <<R1, <<"a">>>>
FileDot == <<R1, <<".", "e">>>>
FileB == <<R2, <<"a">>>>
\* The files of the workspace folders an editor can show.
Files == {FileA, FileDot, FileB}
\* A file of no workspace folder.
FileOut == <<<<"t", "0">>, <<"o">>>>
\* vscode.window.activeTextEditor when no editor is active.
NoEditor == <<>>
\* getWorkspaceRoot(uri): the folder of the file, undefined when it has none.
RootOf(f) == IF f[1] \in Roots THEN f[1] ELSE NoRoot

RECURSIVE JoinSegs(_, _)
JoinSegs(segs, sp) ==
  IF Len(segs) = 0 THEN <<>>
  ELSE IF Len(segs) = 1 THEN segs[1]
  ELSE segs[1] \o <<sp>> \o JoinSegs(Tail(segs), sp)

RECURSIVE CommonPrefixLen(_, _)
CommonPrefixLen(a, b) ==
  IF Len(a) = 0 \/ Len(b) = 0 \/ a[1] # b[1] THEN 0
  ELSE 1 + CommonPrefixLen(Tail(a), Tail(b))

\* path.relative(from, to) of two absolute paths, with the platform separator.
PathRelative(from, to, sp) ==
  LET n == CommonPrefixLen(from, to)
      ups == [i \in 1..(Len(from) - n) |-> <<".", ".">>]
      rest == SubSeq(to, n + 1, Len(to))
  IN  JoinSegs(ups \o rest, sp)

normalizeFilePath(filePath) ==
  [i \in 1..Len(filePath) |-> IF filePath[i] = "\\" THEN "/" ELSE filePath[i]]

getRelativePath(absolutePath, workspaceRoot, sp) ==
  LET normalized == normalizeFilePath(PathRelative(<<workspaceRoot>>, absolutePath, sp))
  IN  IF Len(normalized) > 0 /\ normalized[1] = "." THEN normalized
      ELSE <<".", "/">> \o normalized

\* The Index key a Store of root workspaceRoot uses for file f.
KeyOf(f, workspaceRoot, sp) == normalizeFilePath(getRelativePath(f, workspaceRoot, sp))

\* ------------------------------------------------------- the Index (a Map)
\* A Map<string, Note[]> in insertion order: a sequence of [path, notes].
EmptyIndex == <<>>

MapHas(m, k) == \E i \in 1..Len(m) : m[i].path = k

MapGet(m, k) == m[CHOOSE i \in 1..Len(m) : m[i].path = k].notes

MapSet(m, k, v) ==
  IF MapHas(m, k)
  THEN [i \in 1..Len(m) |-> IF m[i].path = k THEN [path |-> k, notes |-> v] ELSE m[i]]
  ELSE Append(m, [path |-> k, notes |-> v])

MapDelete(m, k) == SelectSeq(m, LAMBDA e : e.path # k)

MapKeys(m) == {m[i].path : i \in 1..Len(m)}

RECURSIVE getTotalNoteCountOf(_)
getTotalNoteCountOf(m) ==
  IF Len(m) = 0 THEN 0 ELSE Len(m[1].notes) + getTotalNoteCountOf(Tail(m))

\* Array.prototype.findIndex(n => n.id === noteId): 0 when there is none.
FindIndex(ns, noteId) ==
  IF \E i \in 1..Len(ns) : ns[i].id = noteId
  THEN CHOOSE i \in 1..Len(ns) :
         ns[i].id = noteId /\ \A j \in 1..(i - 1) : ns[j].id # noteId
  ELSE 0

RemoveAt(ns, i) == SubSeq(ns, 1, i - 1) \o SubSeq(ns, i + 1, Len(ns))

\* ------------------------------------------------------------------- notes
generateId(t, rnd) == <<t, rnd>>

createNote(line, text, priority, category, t, rnd, user) ==
  [id |-> generateId(t, rnd), line |-> line, text |-> text, timestamp |-> t,
   author |-> user, priority |-> priority, category |-> category]

\* A record of the sidecar file has the fields its DOMAIN names; a JSON null
\* in a note array is the record NullRec.
NullRec == [isNull |-> TRUE]
IsNull(r) == "isNull" \in DOMAIN r
Has(r, f) == f \in DOMAIN r

\* A migration that sets the defaults whether or not the field is there.
migrateNoteOverwriting(note, t) ==
  [id |-> note.id, line |-> note.line, text |-> note.text,
   timestamp |-> t, author |-> "Unknown", priority |-> "medium", category |-> "note"]

\* migrateNote: `??` gives the default for a field the record lacks.
migrateNote(note, t) ==
  [id |-> note.id, line |-> note.line, text |-> note.text,
   timestamp |-> IF Has(note, "timestamp") THEN note.timestamp ELSE t,
   author |-> IF Has(note, "author") THEN note.author ELSE "Unknown",
   priority |-> IF Has(note, "priority") THEN note.priority ELSE "medium",
   category |-> IF Has(note, "category") THEN note.category ELSE "note"]

\* ------------------------------------------------------- the sidecar file
\* What .notes.json holds: no file, text JSON.parse rejects, the JSON value
\* null, or an object: its entries in order, each a key with a value that is
\* an array of records or (isArray FALSE) something else.  "unreadable" is
\* what readFile gives when it rejects.
Absent == [kind |-> "absent", entries |-> <<>>]
Invalid == [kind |-> "invalid", entries |-> <<>>]
JsonNull == [kind |-> "null", entries |-> <<>>]
Unreadable == [kind |-> "unreadable", entries |-> <<>>]
Object(entries) == [kind |-> "object", entries |-> entries]
Entry(key, recs) == [key |-> key, isArray |-> TRUE, recs |-> recs]
NotArray(key) == [key |-> key, isArray |-> FALSE, recs |-> <<>>]

\* A saveNow that copies every key of the Index into the object it writes.
SerializeEveryKey(m) ==
  Object([i \in 1..Len(m) |-> Entry(m[i].path, m[i].notes)])

\* saveNow, lines 127-134: the Index as the JSON text written, empty arrays left out.
Serialize(m) ==
  LET kept == SelectSeq(m, LAMBDA e : Len(e.notes) > 0)
  IN  Object([i \in 1..Len(kept) |-> Entry(kept[i].path, kept[i].notes)])

\* load, lines 75-79: the loop over Object.entries(data).  notes.map throws on
\* a value that is no array and migrateNote throws on a null record; the
\* entries before it have been set by then.
RECURSIVE LoadEntries(_, _, _)
LoadEntries(entries, acc, t) ==
  IF Len(entries) = 0 THEN [notes |-> acc, threw |-> FALSE]
  ELSE LET e == entries[1] IN
       IF ~e.isArray \/ \E i \in 1..Len(e.recs) : IsNull(e.recs[i])
       THEN [notes |-> acc, threw |-> TRUE]
       ELSE LoadEntries(Tail(entries),
                        MapSet(acc, normalizeFilePath(e.key),
                               [i \in 1..Len(e.recs) |-> migrateNote(e.recs[i], t)]),
                        t)

\* A load that keeps what the Index held (no this.notes.clear()).
LoadResultMerging(old, content, t) ==
  CASE content.kind \in {"absent", "unreadable", "invalid"} -> [notes |-> old, threw |-> TRUE]
    [] content.kind = "null" -> [notes |-> old, threw |-> TRUE]
    [] OTHER -> LoadEntries(content.entries, old, t)

\* A load that empties the Index whenever it fails.
LoadResultClearing(old, content, t) ==
  CASE content.kind \in {"absent", "unreadable", "invalid"} -> [notes |-> EmptyIndex, threw |-> TRUE]
    [] content.kind = "null" -> [notes |-> EmptyIndex, threw |-> TRUE]
    [] OTHER -> LoadEntries(content.entries, EmptyIndex, t)

\* load, lines 70-79, from the content readFile gave: readFile and JSON.parse
\* throw before this.notes.clear(), Object.entries(null) after it.
LoadResult(old, content, t) ==
  CASE content.kind \in {"absent", "unreadable", "invalid"} -> [notes |-> old, threw |-> TRUE]
    [] content.kind = "null" -> [notes |-> EmptyIndex, threw |-> TRUE]
    [] OTHER -> LoadEntries(content.entries, EmptyIndex, t)

\* ------------------------------------------------- the Store's operations
\* Each gives the Index afterwards and whether save() was called.
addNote(m, key, note) ==
  LET fileNotes == IF MapHas(m, key) THEN MapGet(m, key) ELSE <<>>
  IN  [notes |-> MapSet(m, key, Append(fileNotes, note)), saved |-> TRUE]

updateNote(m, key, noteId, newText, t) ==
  IF MapHas(m, key) /\ FindIndex(MapGet(m, key), noteId) > 0
  THEN LET ns == MapGet(m, key)
           i == FindIndex(ns, noteId)
       IN  [notes |-> MapSet(m, key, [ns EXCEPT ![i].text = newText, ![i].timestamp = t]),
            saved |-> TRUE]
  ELSE [notes |-> m, saved |-> FALSE]

\* getNoteById: the first file, in Map order, holding the id.
getNoteById(m, noteId) ==
  IF \E i \in 1..Len(m) : FindIndex(m[i].notes, noteId) > 0
  THEN LET e == CHOOSE i \in 1..Len(m) :
                  /\ FindIndex(m[i].notes, noteId) > 0
                  /\ \A j \in 1..(i - 1) : FindIndex(m[j].notes, noteId) = 0
       IN  [found |-> TRUE, entry |-> e, index |-> FindIndex(m[e].notes, noteId)]
  ELSE [found |-> FALSE, entry |-> 0, index |-> 0]

\* An updateNotePriority that calls save() whether or not the id was found.
updateNotePrioritySaving(m, noteId, priority, t) ==
  LET r == getNoteById(m, noteId) IN
  IF r.found
  THEN [notes |-> [m EXCEPT ![r.entry].notes[r.index].priority = priority,
                            ![r.entry].notes[r.index].timestamp = t],
        saved |-> TRUE]
  ELSE [notes |-> m, saved |-> TRUE]

updateNotePriority(m, noteId, priority, t) ==
  LET r == getNoteById(m, noteId) IN
  IF r.found
  THEN [notes |-> [m EXCEPT ![r.entry].notes[r.index].priority = priority,
                            ![r.entry].notes[r.index].timestamp = t],
        saved |-> TRUE]
  ELSE [notes |-> m, saved |-> FALSE]

updateNoteCategory(m, noteId, category, t) ==
  LET r == getNoteById(m, noteId) IN
  IF r.found
  THEN [notes |-> [m EXCEPT ![r.entry].notes[r.index].category = category,
                            ![r.entry].notes[r.index].timestamp = t],
        saved |-> TRUE]
  ELSE [notes |-> m, saved |-> FALSE]

\* A deleteNote that removes the path's key when the id is not found in a
\* sequence that holds one note.
deleteNoteDroppingKey(m, key, noteId) ==
  IF MapHas(m, key) /\ FindIndex(MapGet(m, key), noteId) > 0
  THEN LET ns == RemoveAt(MapGet(m, key), FindIndex(MapGet(m, key), noteId))
       IN  [notes |-> IF Len(ns) = 0 THEN MapDelete(m, key) ELSE MapSet(m, key, ns),
            saved |-> TRUE]
  ELSE IF MapHas(m, key) /\ Len(MapGet(m, key)) = 1
  THEN [notes |-> MapDelete(m, key), saved |-> FALSE]
  ELSE [notes |-> m, saved |-> FALSE]

\* A deleteNote that leaves the path's key in the Index when its last note
\* is removed.
deleteNoteKeepingEmptyKey(m, key, noteId) ==
  IF MapHas(m, key) /\ FindIndex(MapGet(m, key), noteId) > 0
  THEN [notes |-> MapSet(m, key, RemoveAt(MapGet(m, key), FindIndex(MapGet(m, key), noteId))),
        saved |-> TRUE]
  ELSE [notes |-> m, saved |-> FALSE]

deleteNote(m, key, noteId) ==
  IF MapHas(m, key) /\ FindIndex(MapGet(m, key), noteId) > 0
  THEN LET ns == RemoveAt(MapGet(m, key), FindIndex(MapGet(m, key), noteId))
       IN  [notes |-> IF Len(ns) = 0 THEN MapDelete(m, key) ELSE MapSet(m, key, ns),
            saved |-> TRUE]
  ELSE [notes |-> m, saved |-> FALSE]

\* ---------------------------------------------------------------- debounce
SetMax(S) == CHOOSE x \in S : \A y \in S : y <= x
SetMin(S) == CHOOSE x \in S : \A y \in S : x <= y

\* A debounce that forgets clearTimeout: the earlier timer stays armed.
debounceNoClear(ts) == ts \cup {SaveDelay}

\* debounce, utils.ts: clearTimeout(timeoutId) disarms the timer set last (the
\* one with the most time left), then setTimeout arms a new one.
debounce(ts) ==
  (IF ts = {} THEN {} ELSE ts \ {SetMax(ts)}) \cup {SaveDelay}

\* ------------------------------------------------------------ input sets
User == "me"
Lines == {5}
Texts == {"fix this"}
NewTexts == {"edited"}
NewPriorities == {"high"}
NewCategories == {"bug"}
Rnds == 1..MaxRnd
\* An id no note carries: a stale reference held by a thread or a tree item.
StaleId == <<0 - 1, 0>>

KeyA == <<".", "/", "a">>
KeyC == <<".", "/", "c">>
KeyCBack == <<".", "\\", "c">>

\* A record as another tool or an older version wrote it, with the optional
\* fields that `present` names.
ExtRec(id, present) ==
  LET full == [id |-> id, line |-> 7, text |-> "ext", timestamp |-> 100,
               author |-> "bob", priority |-> "high", category |-> "todo"]
  IN  [f \in {"id", "line", "text"} \cup present |-> full[f]]

ExtId1 == <<0 - 5, 1>>
ExtId2 == <<0 - 5, 2>>

\* An older version's file, a current one, and files no version writes: an
\* empty array, a value that is no array after a good entry, a null record
\* after a good entry, and a key with a backslash that normalises to KeyC.
OldFile == Object(<<Entry(KeyC, <<ExtRec(ExtId1, {})>>)>>)
NewFile == Object(<<Entry(KeyC, <<ExtRec(ExtId1, OptionalFields)>>)>>)
\* A file holding a note on a line below the one the user annotates next.
LaterLineFile == Object(<<Entry(KeyA, <<ExtRec(ExtId1, OptionalFields)>>)>>)
EmptyArrayFile == Object(<<Entry(KeyA, <<>>)>>)
NotArrayFile == Object(<<Entry(KeyA, <<ExtRec(ExtId1, {})>>), NotArray(KeyC)>>)
NullRecFile == Object(<<Entry(KeyC, <<ExtRec(ExtId2, OptionalFields), NullRec>>)>>)
BackslashFile ==
  Object(<<Entry(KeyCBack, <<ExtRec(ExtId1, {})>>),
           Entry(KeyC, <<ExtRec(ExtId2, OptionalFields)>>)>>)

\* A file written by hand or by another tool, with a priority that is none
\* of the three the extension knows.
OddPriorityFile ==
  Object(<<Entry(KeyA, <<[ExtRec(ExtId1, OptionalFields) EXCEPT !.priority = "urgent"]>>)>>)

\* A file in which a record was copied to another path with its id, as a
\* merge of two branches or an edit by hand leaves it.
SameIdFile ==
  Object(<<Entry(KeyA, <<ExtRec(ExtId1, OptionalFields)>>),
           Entry(KeyC, <<ExtRec(ExtId1, OptionalFields)>>)>>)

\* The same with the record of the other path first, so that the note of
\* ./a is the second one getNoteById comes to.
SameIdLaterFile ==
  Object(<<Entry(KeyC, <<ExtRec(ExtId1, OptionalFields)>>),
           Entry(KeyA, <<ExtRec(ExtId1, OptionalFields)>>)>>)

\* The file of LaterLineFile after another process lowered the priority
\* of its note.
LoweredFile ==
  Object(<<Entry(KeyA, <<[ExtRec(ExtId1, OptionalFields) EXCEPT !.priority = "low"]>>)>>)

\* What another process may leave in .notes.json.
ExternalContents ==
  {Invalid, JsonNull, OldFile, NewFile, EmptyArrayFile, NotArrayFile, NullRecFile,
   BackslashFile}

\* What the racing process writes.
RaceContents == {OldFile, EmptyArrayFile}

\* Files of one record each, with every choice of optional fields.
OneRecordFiles ==
  {Object(<<Entry(KeyC, <<ExtRec(ExtId1, P)>>)>>) : P \in SUBSET OptionalFields}

\* ------------------------------------------------------------------- state
VARIABLES
  sep,          \* the platform's path separator
  now,          \* Date.now()
  disk,         \* per root: what <root>/.notes.json holds
  nStores,      \* NoteStorage instances constructed so far
  root,         \* per Store: workspaceRoot
  notes,        \* per Store: the Index (this.notes)
  timers,       \* per Store: armed debounce timers, as ms left
  writes,       \* per Store: writeFile calls in progress (the content of each)
  loads,        \* per Store: load() calls in progress
  events,       \* per Store: file-watch events delivered and not yet handled
  watching,     \* per Store: fileWatcher is set and not disposed
  listeners,    \* per Store: changeListeners.length
  storage,      \* extension.ts: the module-level `storage`
  provStorage,  \* ReviewNotesProvider.storage
  cmdStorage,   \* the storage captured by the tree and export commands
  wsRoot,       \* WorkspaceManager.currentWorkspaceRoot
  pc,           \* "init", "activating", "active"
  sinceSave,    \* per Store: ms since save() was last called (-1: never), up to SaveDelay
  dirty,        \* per Store: save() was called and saveNow has not run since
  basis,        \* per Store: what last set the Index: a mutation (idx: the Index it
                \* left) or a load (idx: the Index before it, content: what it read)
  lost,         \* per Store: a write failed and none has succeeded since
  raised,       \* per Store: the ids of the notes updateNotePriority has set to
                \* high and no delete has removed since
  active,       \* the file of vscode.window.activeTextEditor
  threads,      \* the note ids on the threads ReviewNotesProvider tracks for the
                \* active file (a thread of another file is redrawn when its
                \* file becomes the active one)
  loose,        \* per file: the threads the provider made and does not track, not
                \* disposed yet (MaxLoose: that many or more)
  prompt,       \* the handleEditProperties that awaits a quick pick, if any: its
                \* Store, the id on its thread and the values it read as current
  dialog,       \* the export that awaits its save dialog, if any: its format, its
                \* Store and the Map getAllNotes gave it
  ev            \* the last step: its operation, its Store and its effects

storeVars == <<nStores, root, notes, timers, writes, loads, events, watching, listeners>>
wiringVars == <<storage, provStorage, cmdStorage, wsRoot, pc>>
histVars == <<sinceSave, dirty, basis, lost, raised>>
uiVars == <<active, threads, loose>>
vars == <<sep, now, disk, storeVars, wiringVars, histVars, uiVars, prompt, dialog, ev>>

\* A step and the calls it made, in order, to the change listeners and to
\* the callback given to watchFile.
EventCalls(op, s, fx, calls) == [op |-> op, s |-> s, fx |-> fx, calls |-> calls]

Event(op, s, fx) == EventCalls(op, s, fx, <<>>)

BasisInit == [by |-> "init", idx |-> EmptyIndex, content |-> Absent]
BasisMut(idx) == [by |-> "mut", idx |-> idx, content |-> Absent]
BasisLoad(content, threw, old) ==
  [by |-> IF threw THEN "loadFailed" ELSE "load", idx |-> old, content |-> content]

\* new NoteStorage(workspaceRoot), before activate has run, with the sidecar
\* file of the first root one of `contents`.
InitWith(contents) ==
  /\ sep = "/"
  /\ dialog = <<>>
  /\ now = 0
  /\ prompt = <<>>
  /\ disk \in [Roots -> contents \cup {Absent}]
  /\ disk[R1] \in contents
  /\ disk[R2] = Absent
  /\ nStores = 1
  /\ root = [s \in Stores |-> IF s = 1 THEN R1 ELSE NoRoot]
  /\ notes = [s \in Stores |-> EmptyIndex]
  /\ timers = [s \in Stores |-> {}]
  /\ writes = [s \in Stores |-> <<>>]
  /\ loads = [s \in Stores |-> <<>>]
  /\ events = [s \in Stores |-> 0]
  /\ watching = [s \in Stores |-> FALSE]
  /\ listeners = [s \in Stores |-> 0]
  /\ storage = 1
  /\ provStorage = 0
  /\ cmdStorage = 0
  /\ wsRoot = R1
  /\ pc = "init"
  /\ sinceSave = [s \in Stores |-> 0 - 1]
  /\ dirty = [s \in Stores |-> FALSE]
  /\ basis = [s \in Stores |-> BasisInit]
  /\ lost = [s \in Stores |-> FALSE]
  /\ raised = [s \in Stores |-> {}]
  /\ active = FileA
  /\ threads = {}
  /\ loose = [f \in Files \cup {FileOut} |-> 0]
  /\ ev = Event("init", 0, {})

Init == InitWith({Absent, NewFile})

\* A file with a note of the file the user works on.
InitOps == InitWith({Absent, LaterLineFile})

\* A file with notes of the file shown, one of them with an odd priority.
InitThreads == InitWith({Absent, LaterLineFile, OddPriorityFile})

\* A file with a note of the file shown, its id met once or twice.
InitComment == InitWith({LaterLineFile, SameIdLaterFile})

\* Files an older version or another tool left, met by the first load.
InitLoad ==
  InitWith(OneRecordFiles \cup {NullRecFile, BackslashFile, OddPriorityFile, SameIdFile})

Live == 1..nStores

\* ---------------------------------------------------------------- threads
\* getNotesForFile (noteStorage.ts 146-150) of the Store of root r.
getNotesForFile(idx, f, r) ==
  LET key == KeyOf(f, r, sep) IN IF MapHas(idx, key) THEN MapGet(idx, key) ELSE <<>>

\* new ReviewComment(note, thread) reads PRIORITY_CONFIG[note.priority].icon
\* and CATEGORY_CONFIG[note.category].icon: a TypeError for a value that is no
\* key of the table.
CommentThrows(note) == note.priority \notin Priorities \/ note.category \notin Categories

\* The first note of ns whose comment cannot be built, 0 when there is none.
FirstThrowing(ns) ==
  IF \E i \in 1..Len(ns) : CommentThrows(ns[i])
  THEN CHOOSE i \in 1..Len(ns) :
         CommentThrows(ns[i]) /\ \A j \in 1..(i - 1) : ~CommentThrows(ns[j])
  ELSE 0

\* renderNotesForFile: the threads tracked for file f are disposed and one
\* thread is made for each note the provider's Store holds for f; they are
\* tracked (this.threads.set) once all are made.
renderNotesForFile(f, idx, r) ==
  LET ns == getNotesForFile(idx, f, r) IN
  IF FirstThrowing(ns) > 0 THEN {} ELSE {ns[i].id : i \in 1..Len(ns)}

\* The threads a renderNotesForFile that threw had made by then.
renderLeak(f, idx, r) == FirstThrowing(getNotesForFile(idx, f, r))

Capped(n) == IF n > MaxLoose THEN MaxLoose ELSE n

\* renderNotesForFile(f) as a step of the provider.
Render(f, idx, r) ==
  /\ threads' = renderNotesForFile(f, idx, r)
  /\ loose' = [loose EXCEPT ![f] = Capped(@ + renderLeak(f, idx, r))]

\* if (vscode.window.activeTextEditor) provider.renderNotesForFile(its uri)
RenderActive(idx, r) ==
  IF active = NoEditor THEN UNCHANGED <<threads, loose>> ELSE Render(active, idx, r)

\* ------------------------------------------------------------------- load
\* notifyChange: the effect of calling every registered listener.
notifyChange(s) == IF listeners[s] > 0 THEN {"notify"} ELSE {}

\* changeListeners.forEach(listener => listener())
notifyCalls(s) == [i \in 1..listeners[s] |-> "listener"]

\* A then() of watchFile that calls the callback before the listeners.
watchThenCallbackFirst(s) == <<"onExternalChange">> \o notifyCalls(s)

\* The then() of watchFile (lines 247-250): notifyChange, then the callback.
watchThen(s) == notifyCalls(s) \o <<"onExternalChange">>

\* What runs once load() has resolved, by who called it: activate (lines
\* 35-60 of extension.ts), the file watcher's then() (noteStorage.ts 247-250)
\* or the workspace-change handler (extension.ts 124-132), where cur is the
\* module-level `storage` at that moment.
AfterLoad(s, kind, threw, op, cur) ==
  LET err == (IF threw THEN {"error"} ELSE {}) \cup {"render"} IN
  CASE kind = "activate" ->
         /\ RenderActive(notes'[s], root[s])
         /\ provStorage' = s
         /\ cmdStorage' = s
         /\ listeners' = [listeners EXCEPT ![s] = @ + 1]
         /\ watching' = [watching EXCEPT ![s] = TRUE]
         /\ pc' = "active"
         /\ ev' = Event(op, s, err)
    [] kind = "watch" ->
         /\ RenderActive(notes'[provStorage], root[provStorage])
         /\ ev' = EventCalls(op, s, err \cup notifyChange(s) \cup {"callback"}, watchThen(s))
         /\ UNCHANGED <<listeners, watching, provStorage, cmdStorage, pc>>
    [] OTHER ->
         /\ RenderActive(notes'[provStorage], root[provStorage])
         /\ listeners' = [listeners EXCEPT ![cur] = @ + 1]
         /\ ev' = Event(op, s, err)
         /\ UNCHANGED <<watching, provStorage, cmdStorage, pc>>

\* load() up to its await: existsSync, then readFile is started.
\* At most max loads of one Store are in flight.
BeginLoadWithin(s, kind, r, cur, max) ==
  IF disk[r].kind = "absent"
  THEN /\ UNCHANGED <<notes, loads, basis>>
       /\ AfterLoad(s, kind, FALSE, "loadNoFile", cur)
  ELSE /\ Len(loads[s]) < max
       /\ loads' = [loads EXCEPT ![s] =
                      Append(@, [kind |-> kind, stage |-> "reading", content |-> Absent])]
       /\ ev' = Event("loadStart", s, {})
       /\ UNCHANGED <<notes, basis, listeners, watching, provStorage, cmdStorage, pc,
                      threads, loose>>

BeginLoad(s, kind, r, cur) == BeginLoadWithin(s, kind, r, cur, MaxLoads)

\* activate, extension.ts 30-31: await storage.load()
Activate ==
  /\ pc = "init"
  /\ loads[1] = <<>>
  /\ BeginLoad(1, "activate", root[1], storage)
  /\ UNCHANGED <<prompt, dialog, sep, now, disk, nStores, root, timers, writes, events, storage, wsRoot,
                 sinceSave, dirty, lost, raised, active>>

\* readFile resolves with the file's content (ok), or rejects.
ReadFile(s, i, ok) ==
  /\ s \in Live
  /\ i \in 1..Len(loads[s])
  /\ loads[s][i].stage = "reading"
  /\ LET c == IF ok /\ disk[root[s]].kind # "absent" THEN disk[root[s]] ELSE Unreadable IN
       /\ loads' = [loads EXCEPT ![s][i].stage = "read", ![s][i].content = c]
       /\ ev' = Event("readFile", s, {})
  /\ UNCHANGED <<prompt, dialog, sep, now, disk, nStores, root, notes, timers, writes, events, watching,
                 listeners, wiringVars, histVars, uiVars>>

\* load() after its await (lines 71-86), then what its caller does next.
LoadApply(s, i) ==
  /\ s \in Live
  /\ i \in 1..Len(loads[s])
  /\ loads[s][i].stage = "read"
  /\ LET op == loads[s][i]
         r == LoadResult(notes[s], op.content, now)
     IN  /\ notes' = [notes EXCEPT ![s] = r.notes]
         /\ loads' = [loads EXCEPT ![s] = RemoveAt(@, i)]
         /\ basis' = [basis EXCEPT ![s] = BasisLoad(op.content, r.threw, notes[s])]
         /\ AfterLoad(s, op.kind, r.threw,
                      IF r.threw THEN "loadFailed" ELSE "loadOk", storage)
  /\ UNCHANGED <<prompt, dialog, sep, now, disk, nStores, root, timers, writes, events, storage, wsRoot,
                 sinceSave, dirty, lost, raised, active>>

\* fileWatcher.onDidChange fires: this.load().then(...)
\* At most max loads of the Store are in flight.
WatchEventWithin(s, max) ==
  /\ s \in Live
  /\ watching[s]
  /\ events[s] > 0
  /\ events' = [events EXCEPT ![s] = @ - 1]
  /\ BeginLoadWithin(s, "watch", root[s], storage, max)
  /\ UNCHANGED <<prompt, dialog, sep, now, disk, nStores, root, timers, writes, storage, wsRoot,
                 sinceSave, dirty, lost, raised, active>>

WatchEvent(s) == WatchEventWithin(s, MaxLoads)

\* ---------------------------------------------------------------- the file
Watchers(r) == {s \in Live : watching[s] /\ root[s] = r}

\* The file of root r changed: every watcher of it gets an event.
FileChanged(r) ==
  /\ \A s \in Watchers(r) : events[s] < MaxEvents
  /\ events' = [s \in Stores |-> IF s \in Watchers(r) THEN events[s] + 1 ELSE events[s]]

\* Another process (an editor, a version-control checkout) rewrites the file.
ExternalWrite(r, c) ==
  /\ disk[r] # c
  /\ disk' = [disk EXCEPT ![r] = c]
  /\ FileChanged(r)
  /\ ev' = Event("externalWrite", 0, {})
  /\ UNCHANGED <<prompt, dialog, sep, now, nStores, root, notes, timers, writes, loads, watching, listeners,
                 wiringVars, histVars, uiVars>>

\* Another process deletes the file; onDidChange does not fire for a delete.
ExternalDelete(r) ==
  /\ disk[r] # Absent
  /\ disk' = [disk EXCEPT ![r] = Absent]
  /\ ev' = Event("externalDelete", 0, {})
  /\ UNCHANGED <<prompt, dialog, sep, now, nStores, root, notes, timers, writes, loads, events, watching,
                 listeners, wiringVars, histVars, uiVars>>

\* -------------------------------------------------------------------- save
\* save(): this.saveDebounced()
Save(s) ==
  /\ timers' = [timers EXCEPT ![s] = debounce(@)]
  /\ sinceSave' = [sinceSave EXCEPT ![s] = 0]
  /\ dirty' = [dirty EXCEPT ![s] = TRUE]

\* A saveNow that writes what save() saw rather than this.notes as it is
\* when the timer fires.
SaveContentStale(s) == Serialize(basis[s].idx)

\* saveNow, lines 125-134: the content is built from this.notes at that moment.
SaveContent(s) == Serialize(notes[s])

\* The debounce timer fires: saveNow up to its await (lines 125-135).
TimerFire(s) ==
  /\ s \in Live
  /\ 0 \in timers[s]
  /\ Len(writes[s]) < MaxWrites
  /\ timers' = [timers EXCEPT ![s] = @ \ {0}]
  /\ writes' = [writes EXCEPT ![s] = Append(@, SaveContent(s))]
  /\ dirty' = [dirty EXCEPT ![s] = FALSE]
  /\ ev' = Event("saveNow", s, {})
  /\ UNCHANGED <<prompt, dialog, sep, now, disk, nStores, root, notes, loads, events, watching, listeners,
                 wiringVars, sinceSave, basis, lost, raised, uiVars>>

\* What a failed write does besides the message: nothing.  A variant that
\* calls notifyChange in the catch block as well.
WriteFailEffectsNotifying(s) == {"error"} \cup notifyChange(s)

WriteFailEffects(s) == {"error"}

\* writeFile resolves: the file holds the content, then notifyChange (line 136).
WriteDone(s, i) ==
  /\ s \in Live
  /\ i \in 1..Len(writes[s])
  /\ disk' = [disk EXCEPT ![root[s]] = writes[s][i]]
  /\ FileChanged(root[s])
  /\ writes' = [writes EXCEPT ![s] = RemoveAt(@, i)]
  /\ lost' = [lost EXCEPT ![s] = FALSE]
  /\ ev' = EventCalls("writeDone", s, notifyChange(s), notifyCalls(s))
  /\ UNCHANGED <<prompt, dialog, sep, now, nStores, root, notes, timers, loads, watching, listeners,
                 wiringVars, sinceSave, dirty, basis, raised, uiVars>>

\* writeFile rejects: the catch block (lines 137-140).
WriteFail(s, i) ==
  /\ s \in Live
  /\ i \in 1..Len(writes[s])
  /\ writes' = [writes EXCEPT ![s] = RemoveAt(@, i)]
  /\ lost' = [lost EXCEPT ![s] = TRUE]
  /\ ev' = Event("writeFailed", s, WriteFailEffects(s))
  /\ UNCHANGED <<prompt, dialog, sep, now, disk, nStores, root, notes, timers, loads, events, watching,
                 listeners, wiringVars, sinceSave, dirty, basis, raised, uiVars>>

\* ------------------------------------------------------------------- time
ArmedTimers == UNION {timers[s] : s \in Live}

\* Time passes, up to the next timer's expiry; an expired timer runs first.
Tick ==
  /\ 0 \notin ArmedTimers
  /\ now < MaxNow
  /\ LET d == SetMin({TickStep, MaxNow - now} \cup ArmedTimers) IN
       /\ now' = now + d
       /\ timers' = [s \in Stores |-> {t - d : t \in timers[s]}]
       /\ sinceSave' = [s \in Stores |->
                          IF sinceSave[s] < 0 THEN sinceSave[s]
                          ELSE IF sinceSave[s] + d > SaveDelay THEN SaveDelay
                          ELSE sinceSave[s] + d]
  /\ ev' = Event("tick", 0, {})
  /\ UNCHANGED <<prompt, dialog, sep, disk, nStores, root, notes, writes, loads, events, watching, listeners,
                 wiringVars, dirty, basis, lost, raised, uiVars>>

\* ------------------------------------------------------------- mutations
IdsIn(m) == {m[i].notes[j].id : <<i, j>> \in {p \in (1..Len(m)) \X (1..MaxNotes) :
                                                 p[2] <= Len(m[p[1]].notes)}}

\* The ids a thread or a tree item may carry: those of the Index, or a stale one.
KnownIds(s) == IdsIn(notes[s]) \cup {StaleId}

\* The Index of Store s becomes r.notes; save() is called when r.saved.
Mutate(s, r, op) ==
  /\ notes' = [notes EXCEPT ![s] = r.notes]
  /\ IF r.saved
     THEN /\ Save(s)
          /\ basis' = [basis EXCEPT ![s] = BasisMut(r.notes)]
     ELSE UNCHANGED <<timers, sinceSave, dirty, basis>>
  /\ ev' = Event(op, s, IF r.saved THEN {"save"} ELSE {})
  /\ UNCHANGED <<prompt, dialog, sep, now, disk, nStores, root, writes, loads, events, watching, listeners,
                 wiringVars, lost, active>>

\* The Presentation Adapter acts on the file shown, a file of the root the
\* workspace manager has recorded, through the Store it was constructed with.
ProviderCan(s, f) == pc = "active" /\ s = provStorage /\ RootOf(f) = wsRoot

\* addNote, called by handleCreateNote with createNote(line, text, 'low', 'note').
AddNote(s, f, line, text, rnd) ==
  /\ ProviderCan(s, f)
  /\ getTotalNoteCountOf(notes[s]) < MaxNotes
  /\ Mutate(s, addNote(notes[s], KeyOf(f, root[s], sep),
                       createNote(line, text, "low", "note", now, rnd, User)), "addNote")
  /\ threads' = IF f = active THEN threads \cup {generateId(now, rnd)} ELSE threads
  /\ UNCHANGED <<raised, loose>>

\* updateNote, called by handleSaveNote.
UpdateNote(s, f, noteId, newText) ==
  /\ ProviderCan(s, f)
  /\ Mutate(s, updateNote(notes[s], KeyOf(f, root[s], sep), noteId, newText, now), "updateNote")
  /\ UNCHANGED <<threads, raised, loose>>

\* updateNotePriority, called by handleSetPriority and handleEditProperties.
UpdateNotePriority(s, noteId, priority) ==
  /\ pc = "active" /\ s = provStorage
  /\ Mutate(s, updateNotePriority(notes[s], noteId, priority, now), "updateNotePriority")
  /\ raised' = IF updateNotePriority(notes[s], noteId, priority, now).saved /\ priority = "high"
                THEN [raised EXCEPT ![s] = @ \cup {noteId}]
                ELSE raised
  /\ UNCHANGED <<threads, loose>>

\* updateNoteCategory, called by handleSetCategory and handleEditProperties.
UpdateNoteCategory(s, noteId, category) ==
  /\ pc = "active" /\ s = provStorage
  /\ Mutate(s, updateNoteCategory(notes[s], noteId, category, now), "updateNoteCategory")
  /\ UNCHANGED <<threads, raised, loose>>

\* showQuickPick resolved with undefined: the prompt was dismissed.
Cancelled == "cancelled"

\* What the user does at each prompt: picks the value new notes get, picks
\* another one, or dismisses the prompt.
PickedCategories == {"note", "bug", Cancelled}
PickedPriorities == {"low", "high", Cancelled}

\* comment.note of the tracked thread that carries noteId: the object the
\* provider's Store holds for the file shown or, once the Store has dropped
\* it, that object as it was left.
CachedNotes(s, noteId) ==
  LET ns == getNotesForFile(notes[s], active, root[s])
      i == FindIndex(ns, noteId)
  IN  IF i > 0
      THEN {[category |-> ns[i].category, priority |-> ns[i].priority]}
      ELSE [category : Categories, priority : Priorities]

\* A handleEditProperties that commits the category as soon as it is picked.
categoryWriteBeforeStep2(cur, pickedCategory, pickedPriority) ==
  pickedCategory # Cancelled /\ pickedCategory # cur.category

\* handleEditProperties reaches `pickedCategory.category !== currentCategory`
\* past both prompts, and the test holds.
categoryWrite(cur, pickedCategory, pickedPriority) ==
  /\ pickedCategory # Cancelled
  /\ pickedPriority # Cancelled
  /\ pickedCategory # cur.category

\* The same for `pickedPriority.priority !== currentPriority`.
priorityWrite(cur, pickedCategory, pickedPriority) ==
  /\ pickedCategory # Cancelled
  /\ pickedPriority # Cancelled
  /\ pickedPriority # cur.priority

\* handleEditProperties on the comment of a tracked thread of the file
\* shown: two prompts, then one Store call for each field that was changed,
\* then comment.refresh() if any was.
EditProperties(s, noteId, cur, pickedCategory, pickedPriority) ==
  /\ pc = "active"
  /\ s = provStorage
  /\ noteId \in threads
  /\ cur \in CachedNotes(s, noteId)
  /\ LET catW == categoryWrite(cur, pickedCategory, pickedPriority)
         priW == priorityWrite(cur, pickedCategory, pickedPriority)
         r1 == IF catW
               THEN updateNoteCategory(notes[s], noteId, pickedCategory, now)
               ELSE [notes |-> notes[s], saved |-> FALSE]
         r2 == IF priW
               THEN updateNotePriority(r1.notes, noteId, pickedPriority, now)
               ELSE [notes |-> r1.notes, saved |-> FALSE]
         saved == r1.saved \/ r2.saved
     IN  /\ notes' = [notes EXCEPT ![s] = r2.notes]
         /\ IF saved
            THEN /\ Save(s)
                 /\ basis' = [basis EXCEPT ![s] = BasisMut(r2.notes)]
            ELSE UNCHANGED <<timers, sinceSave, dirty, basis>>
         /\ raised' = IF r2.saved /\ pickedPriority = "high"
                       THEN [raised EXCEPT ![s] = @ \cup {noteId}]
                       ELSE raised
         /\ ev' = [op |-> "editProperties", s |-> s,
                   fx |-> (IF saved THEN {"save"} ELSE {})
                            \cup (IF catW \/ priW THEN {"refresh"} ELSE {}),
                   calls |-> (IF catW THEN <<"updateNoteCategory">> ELSE <<>>)
                               \o (IF priW THEN <<"updateNotePriority">> ELSE <<>>),
                   current |-> cur,
                   picked |-> [category |-> pickedCategory, priority |-> pickedPriority]]
  /\ UNCHANGED <<prompt, dialog, sep, now, disk, nStores, root, writes, loads, events, watching, listeners,
                 wiringVars, lost, uiVars>>

\* comment.note[field] = value, comment being the comment of the tracked
\* thread of the file shown that carries noteId: comment.note is the object
\* the Index held for that file when the thread was made, and is in the
\* Index m still unless the Store has dropped it since.
writeCommentNote(m, key, noteId, field, value) ==
  IF MapHas(m, key) /\ FindIndex(MapGet(m, key), noteId) > 0
  THEN LET ns == MapGet(m, key)
           i == FindIndex(ns, noteId)
       IN  MapSet(m, key, [ns EXCEPT ![i] = [@ EXCEPT ![field] = value]])
  ELSE m

\* A step of the provider on the comment of a tracked thread of the file
\* shown: the Store call r, then the handler's own writes to comment.note,
\* which turn r.notes into idx.
CommentStep(s, noteId, r, idx, op) ==
  /\ pc = "active"
  /\ s = provStorage
  /\ noteId \in threads
  /\ Mutate(s, [notes |-> idx, saved |-> r.saved], op)
  /\ UNCHANGED <<threads, raised, loose>>

\* handleSetPriority: updateNotePriority(noteId, priority), then
\* comment.note.priority = priority.
SetPriority(s, noteId, priority) ==
  LET r == updateNotePriority(notes[s], noteId, priority, now) IN
  CommentStep(s, noteId, r,
              writeCommentNote(r.notes, KeyOf(active, root[s], sep), noteId,
                               "priority", priority),
              "setPriority")

\* handleSetCategory: updateNoteCategory(noteId, category), then
\* comment.note.category = category.
SetCategory(s, noteId, category) ==
  LET r == updateNoteCategory(notes[s], noteId, category, now) IN
  CommentStep(s, noteId, r,
              writeCommentNote(r.notes, KeyOf(active, root[s], sep), noteId,
                               "category", category),
              "setCategory")

\* handleSaveNote: updateNote(thread.uri, noteId, newText), then
\* comment.note.text = newText and comment.note.timestamp = Date.now().
SaveNote(s, noteId, newText) ==
  LET key == KeyOf(active, root[s], sep)
      r == updateNote(notes[s], key, noteId, newText, now)
  IN  CommentStep(s, noteId, r,
                  writeCommentNote(writeCommentNote(r.notes, key, noteId, "text", newText),
                                   key, noteId, "timestamp", now),
                  "saveNote")

\* handleEditProperties up to its first await: currentCategory and
\* currentPriority are read from comment.note, then the first quick pick is
\* shown.
BeginEditProperties(s, noteId, cur) ==
  /\ pc = "active"
  /\ s = provStorage
  /\ prompt = <<>>
  /\ noteId \in threads
  /\ cur \in CachedNotes(s, noteId)
  /\ prompt' = <<[s |-> s, noteId |-> noteId, current |-> cur]>>
  /\ ev' = Event("editPropertiesBegin", s, {})
  /\ UNCHANGED <<dialog, sep, now, disk, storeVars, wiringVars, histVars, uiVars>>

\* handleEditProperties once both quick picks have resolved (a dismissed one
\* ends it): the picks are compared with the values read at the start, and
\* the Store is called through the id on the thread.
FinishEditProperties(pickedCategory, pickedPriority) ==
  /\ prompt # <<>>
  /\ prompt' = <<>>
  /\ LET s == prompt[1].s
         noteId == prompt[1].noteId
         cur == prompt[1].current
         catW == categoryWrite(cur, pickedCategory, pickedPriority)
         priW == priorityWrite(cur, pickedCategory, pickedPriority)
         r1 == IF catW
               THEN updateNoteCategory(notes[s], noteId, pickedCategory, now)
               ELSE [notes |-> notes[s], saved |-> FALSE]
         r2 == IF priW
               THEN updateNotePriority(r1.notes, noteId, pickedPriority, now)
               ELSE [notes |-> r1.notes, saved |-> FALSE]
         saved == r1.saved \/ r2.saved
     IN  /\ notes' = [notes EXCEPT ![s] = r2.notes]
         /\ IF saved
            THEN /\ Save(s)
                 /\ basis' = [basis EXCEPT ![s] = BasisMut(r2.notes)]
            ELSE UNCHANGED <<timers, sinceSave, dirty, basis>>
         /\ raised' = IF r2.saved /\ pickedPriority = "high"
                       THEN [raised EXCEPT ![s] = @ \cup {noteId}]
                       ELSE raised
         /\ ev' = [op |-> "editProperties", s |-> s,
                   fx |-> (IF saved THEN {"save"} ELSE {})
                            \cup (IF catW \/ priW THEN {"refresh"} ELSE {}),
                   calls |-> (IF catW THEN <<"updateNoteCategory">> ELSE <<>>)
                               \o (IF priW THEN <<"updateNotePriority">> ELSE <<>>),
                   current |-> cur,
                   picked |-> [category |-> pickedCategory, priority |-> pickedPriority],
                   noteId |-> noteId]
  /\ UNCHANGED <<dialog, sep, now, disk, nStores, root, writes, loads, events, watching,
                 listeners, wiringVars, lost, uiVars>>

\* A delete that found the note ends what is recorded of its priority.
Forget(s, f, noteId) ==
  raised' = IF deleteNote(notes[s], KeyOf(f, root[s], sep), noteId).saved
            THEN [raised EXCEPT ![s] = @ \ {noteId}]
            ELSE raised

\* handleDeleteNote as it would be if the thread were untracked and disposed
\* only when the Store had held the note.
DeleteNoteKeepingUnmatched(s, f, noteId) ==
  /\ ProviderCan(s, f)
  /\ Mutate(s, deleteNote(notes[s], KeyOf(f, root[s], sep), noteId), "deleteNote")
  /\ Forget(s, f, noteId)
  /\ threads' = IF f = active /\ deleteNote(notes[s], KeyOf(f, root[s], sep), noteId).saved
                 THEN threads \ {noteId}
                 ELSE threads
  /\ UNCHANGED loose

\* deleteNote, called by handleDeleteNote, which then disposes the thread.
DeleteNote(s, f, noteId) ==
  /\ ProviderCan(s, f)
  /\ Mutate(s, deleteNote(notes[s], KeyOf(f, root[s], sep), noteId), "deleteNote")
  /\ Forget(s, f, noteId)
  /\ threads' = IF f = active THEN threads \ {noteId} ELSE threads
  /\ UNCHANGED loose

\* deleteNote, called by reviewNotes.deleteNoteFromTree on the Store the
\* command was registered with; the threads are left as they are.
DeleteNoteFromTree(s, f, noteId) ==
  /\ pc = "active"
  /\ s = cmdStorage
  /\ Mutate(s, deleteNote(notes[s], KeyOf(f, root[s], sep), noteId), "deleteNoteFromTree")
  /\ Forget(s, f, noteId)
  /\ UNCHANGED <<threads, loose>>

\* ------------------------------------------------------ threads without a note
\* handleCreateNote on a thread that addNoteAtLine opened: the note is added
\* and the thread, now filled, is tracked.
CreateNoteInThread(s, f, line, text, rnd) ==
  /\ ProviderCan(s, f)
  /\ loose[f] > 0
  /\ getTotalNoteCountOf(notes[s]) < MaxNotes
  /\ Mutate(s, addNote(notes[s], KeyOf(f, root[s], sep),
                       createNote(line, text, "low", "note", now, rnd, User)), "addNote")
  /\ threads' = IF f = active THEN threads \cup {generateId(now, rnd)} ELSE threads
  /\ loose' = [loose EXCEPT ![f] = @ - 1]
  /\ UNCHANGED raised

\* A step of the provider that touches only its threads without a note.
LooseStep(f, n, op) ==
  /\ pc = "active"
  /\ loose' = [loose EXCEPT ![f] = n]
  /\ ev' = Event(op, provStorage, {})
  /\ UNCHANGED <<prompt, dialog, sep, now, disk, storeVars, wiringVars, histVars, active, threads>>

\* reviewNotes.addNote: addNoteAtLine opens an empty thread on the active
\* editor's file and records it nowhere.
AddNoteAtLine ==
  /\ loose[active] < MaxLoose
  /\ LooseStep(active, loose[active] + 1, "addNoteAtLine")

\* reviewNotes.discardNote: reply.thread.dispose()
DiscardNote(f) ==
  /\ loose[f] > 0
  /\ LooseStep(f, loose[f] - 1, "discardNote")

\* handleDeleteNote on a thread that carries no __noteId: the Store is not
\* called, the thread is disposed.
DeleteEmptyThread(f) ==
  /\ loose[f] > 0
  /\ LooseStep(f, loose[f] - 1, "deleteEmptyThread")

\* ---------------------------------------------------------------- the tree
\* Array.prototype.sort((a, b) => a.line - b.line): a stable sort by line.
RECURSIVE SortByLine(_)
SortByLine(ns) ==
  IF Len(ns) <= 1 THEN ns
  ELSE LET m == SetMin({ns[i].line : i \in 1..Len(ns)})
           k == CHOOSE i \in 1..Len(ns) :
                  ns[i].line = m /\ \A j \in 1..(i - 1) : ns[j].line # m
       IN  <<ns[k]>> \o SortByLine(RemoveAt(ns, k))

\* getAllNotes: new Map(this.notes), a Map of its own whose values are the
\* arrays of the Index themselves.
getAllNotes(m) == m

\* String.prototype.localeCompare on the characters a path of the model is
\* made of: punctuation before digits before letters.
CharRank(c) ==
  CASE c = "." -> 1 [] c = "/" -> 2 [] c = "\\" -> 3 [] c = "1" -> 4 [] c = "2" -> 5
    [] c = "a" -> 6 [] c = "c" -> 7 [] c = "e" -> 8 [] c = "r" -> 9 [] OTHER -> 10

\* a.localeCompare(b) < 0
RECURSIVE PathBefore(_, _)
PathBefore(a, b) ==
  IF Len(b) = 0 THEN FALSE
  ELSE IF Len(a) = 0 THEN TRUE
  ELSE IF a[1] = b[1] THEN PathBefore(Tail(a), Tail(b))
  ELSE CharRank(a[1]) < CharRank(b[1])

\* items.sort((a, b) => a.filePath.localeCompare(b.filePath)), a stable sort.
RECURSIVE SortByPath(_)
SortByPath(items) ==
  IF Len(items) <= 1 THEN items
  ELSE LET k == CHOOSE i \in 1..Len(items) :
                  /\ \A j \in 1..Len(items) : ~PathBefore(items[j].path, items[i].path)
                  /\ \A j \in 1..(i - 1) : PathBefore(items[i].path, items[j].path)
                                               \/ PathBefore(items[j].path, items[i].path)
       IN  <<items[k]>> \o SortByPath(RemoveAt(items, k))

\* A getFileItems that makes an item for every key of the Index.
getFileItemsOfEveryKey(m) == SortByPath(m)

\* getFileItems: an item for each key with notes, sorted by path.
getFileItems(m) == SortByPath(SelectSeq(m, LAMBDA e : Len(e.notes) > 0))

\* What the tree shows: the file items and, under each, getNoteItems.
TreeListing(m) ==
  LET items == getFileItems(getAllNotes(m))
  IN  [i \in 1..Len(items) |->
         [path |-> items[i].path, notes |-> SortByLine(items[i].notes)]]

\* The tree lists the files (getFileItems, from getAllNotes) and the notes
\* of the i-th of them (getNoteItems): fileItem.notes.sort(...) sorts the
\* array it was handed, the one the Index holds.
GetNoteItems(s, i) ==
  /\ pc = "active"
  /\ s = cmdStorage
  /\ i \in 1..Len(getAllNotes(notes[s]))
  /\ Len(getAllNotes(notes[s])[i].notes) > 0
  /\ notes' = [notes EXCEPT ![s][i].notes = SortByLine(getAllNotes(notes[s])[i].notes)]
  /\ ev' = Event("getNoteItems", s, {})
  /\ UNCHANGED <<prompt, dialog, sep, now, disk, nStores, root, timers, writes, loads, events, watching,
                 listeners, wiringVars, histVars, uiVars>>

\* ---------------------------------------------------------------- export
Formats == {"markdown", "html"}

\* The notes of the Map allNotes, as the positions they are at.
NotePositions(allNotes) ==
  {p \in (1..Len(allNotes)) \X (1..MaxNotes) : p[2] <= Len(allNotes[p[1]].notes)}

\* summary[note.priority]++ and categories[note.category]++ over
\* allNotes.values(): how many notes of allNotes have value v in field f.
CountBy(allNotes, f, v) ==
  Cardinality({p \in NotePositions(allNotes) : allNotes[p[1]].notes[p[2]][f] = v})

\* PRIORITY_CONFIG[note.priority].icon and CATEGORY_CONFIG[note.category]
\* .icon in the per-file listing: a TypeError for a value the tables lack.
ListingThrows(allNotes) ==
  \E p \in NotePositions(allNotes) : CommentThrows(allNotes[p[1]].notes[p[2]])

\* The per-file part of a report: sortedFiles without the empty ones, and
\* under each a sorted copy of its notes.
ReportListing(allNotes) ==
  LET sortedFiles == SortByPath(allNotes)
      shown == SelectSeq(sortedFiles, LAMBDA e : Len(e.notes) > 0)
  IN  [i \in 1..Len(shown) |-> [path |-> shown[i].path, notes |-> SortByLine(shown[i].notes)]]

\* What exportToMarkdown and exportToHtml put in the report, from allNotes
\* (taken before the save dialog) and from storage.getTotalNoteCount() (read
\* once the dialog has closed, idx being the Index by then).  The HTML
\* report shows the three priority counts and no category count.
Report(fmt, allNotes, idx) ==
  [fmt |-> fmt,
   total |-> getTotalNoteCountOf(idx),
   summary |-> [v \in Priorities |-> CountBy(allNotes, "priority", v)],
   categories |-> IF fmt = "markdown"
                  THEN [v \in Categories |-> CountBy(allNotes, "category", v)]
                  ELSE <<>>,
   listing |-> ReportListing(allNotes)]

\* reviewNotes.exportMarkdown / reviewNotes.exportHtml up to the await of
\* showSaveDialog: a warning if allNotes.size === 0, the dialog otherwise.
BeginExport(s, fmt) ==
  /\ pc = "active"
  /\ s = cmdStorage
  /\ dialog = <<>>
  /\ IF Len(getAllNotes(notes[s])) = 0
     THEN /\ dialog' = <<>>
          /\ ev' = Event("exportBegin", s, {"warning"})
     ELSE /\ dialog' = <<[fmt |-> fmt, s |-> s, allNotes |-> getAllNotes(notes[s])]>>
          /\ ev' = Event("exportBegin", s, {"dialog"})
  /\ UNCHANGED <<prompt, sep, now, disk, storeVars, wiringVars, histVars, uiVars>>

\* showSaveDialog resolves: with no uri (the function returns) or with one
\* (the report is built and written, unless building it throws).
FinishExport(ok) ==
  /\ dialog # <<>>
  /\ dialog' = <<>>
  /\ LET d == dialog[1] IN
       ev' = IF ~ok THEN Event("export", d.s, {"cancelled"})
             ELSE IF ListingThrows(d.allNotes) THEN Event("export", d.s, {"error"})
             ELSE [op |-> "export", s |-> d.s, fx |-> {"written"}, calls |-> <<>>,
                   report |-> Report(d.fmt, d.allNotes, notes[d.s])]
  /\ UNCHANGED <<prompt, sep, now, disk, storeVars, wiringVars, histVars, uiVars>>

\* ------------------------------------------------------------ root changes
\* NoteStorage.dispose: this.fileWatcher?.dispose()
Dispose(s) ==
  /\ watching' = [watching EXCEPT ![s] = FALSE]
  /\ events' = [events EXCEPT ![s] = 0]

\* if (newRoot !== this.currentWorkspaceRoot), and a test that takes a change
\* to no root for no change.
rootChangedToDefined(newRoot, current) == newRoot # current /\ newRoot # NoRoot

rootChanged(newRoot, current) == newRoot # current

\* this.currentWorkspaceRoot = newRoot; this.notifyChange(newRoot)
notifyRoot == <<"setRoot", "onChange">>

\* onDidChangeActiveTextEditor(undefined): the last editor was closed.  The
\* workspace manager and the editor-change listener both return at once.
EditorClosed ==
  /\ pc = "active"
  /\ active # NoEditor
  /\ active' = NoEditor
  /\ ev' = Event("editorClosed", 0, {})
  /\ UNCHANGED <<prompt, dialog, sep, now, disk, storeVars, wiringVars, histVars,
                 threads, loose>>

\* The active editor becomes one on file f.  The workspace manager compares
\* its root with the recorded one (workspaceManager.ts 134-144); when it
\* differs, the handler of extension.ts 112-134 runs up to its await.
EditorChange(f) ==
  /\ pc = "active"
  /\ active' = f
  /\ IF ~rootChanged(RootOf(f), wsRoot)
     THEN /\ Render(f, notes[provStorage], root[provStorage])
          /\ ev' = Event("editorChange", 0, {"render"})
          /\ UNCHANGED <<storeVars, wiringVars, basis>>
     ELSE IF RootOf(f) = NoRoot
     THEN /\ wsRoot' = NoRoot
          /\ Render(f, notes[provStorage], root[provStorage])
          /\ ev' = EventCalls("editorChange", 0, {"render"}, notifyRoot)
          /\ UNCHANGED <<storeVars, storage, provStorage, cmdStorage, pc, basis>>
     ELSE /\ nStores < MaxStores
          /\ LET new == nStores + 1 IN
               /\ wsRoot' = RootOf(f)
               /\ nStores' = new
               /\ root' = [root EXCEPT ![new] = RootOf(f)]
               /\ storage' = new
               /\ Dispose(storage)
               /\ Render(f, notes[provStorage], root[provStorage])
               /\ IF disk[RootOf(f)].kind = "absent"
                  THEN /\ listeners' = [listeners EXCEPT ![new] = @ + 1]
                       /\ ev' = EventCalls("loadNoFile", new, {"clearAllThreads", "render"},
                                           notifyRoot)
                       /\ UNCHANGED loads
                  ELSE /\ loads' = [loads EXCEPT ![new] =
                                      <<[kind |-> "rootchange", stage |-> "reading",
                                         content |-> Absent]>>]
                       /\ ev' = EventCalls("loadStart", new, {"clearAllThreads", "render"},
                                           notifyRoot)
                       /\ UNCHANGED listeners
               /\ UNCHANGED <<notes, timers, writes, provStorage, cmdStorage, pc, basis>>
  /\ UNCHANGED <<prompt, dialog, sep, now, disk, sinceSave, dirty, lost, raised>>

\* ------------------------------------------------------------ specification
HomeFiles == {f \in Files : RootOf(f) = R1}

LoadNext ==
  \/ Activate
  \/ \E s \in Stores, i \in 1..MaxLoads : ReadFile(s, i, TRUE)
  \/ \E s \in Stores, i \in 1..MaxLoads : LoadApply(s, i)
  \/ \E s \in Stores : WatchEvent(s)

\* The Store between two saves: loads, reloads on file changes by other
\* processes, and mutations, all within the debounce delay of each other.
Next ==
  \/ LoadNext
  \/ \E s \in Stores, i \in 1..MaxLoads : ReadFile(s, i, FALSE)
  \/ \E c \in ExternalContents : ExternalWrite(R1, c)
  \/ ExternalDelete(R1)
  \/ \E s \in Stores, f \in HomeFiles, line \in Lines, text \in Texts, rnd \in Rnds :
       AddNote(s, f, line, text, rnd)
  \/ \E s \in Stores, f \in HomeFiles :
       \E noteId \in KnownIds(s) : DeleteNote(s, f, noteId)

\* The Store left to itself: mutations of one file's notes, debounced saves
\* and the reloads its own writes set off.
NextSave ==
  \/ LoadNext
  \/ Tick
  \/ \E s \in Stores : TimerFire(s)
  \/ \E s \in Stores, i \in 1..MaxWrites : WriteDone(s, i)
  \/ \E s \in Stores, i \in 1..MaxWrites : WriteFail(s, i)
  \/ \E s \in Stores, line \in Lines, text \in Texts, rnd \in Rnds :
       /\ getTotalNoteCountOf(notes[s]) < MaxTimedNotes
       /\ AddNote(s, FileA, line, text, rnd)
  \/ \E s \in Stores, text \in NewTexts :
       \E noteId \in KnownIds(s) : UpdateNote(s, FileA, noteId, text)
  \/ \E s \in Stores, p \in NewPriorities :
       \E noteId \in KnownIds(s) : UpdateNotePriority(s, noteId, p)
  \/ \E s \in Stores :
       \E noteId \in KnownIds(s) : DeleteNote(s, FileA, noteId)

\* A mutation racing with another process's write: the reload can come
\* before the debounced save.
NextRace ==
  \/ LoadNext
  \/ Tick
  \/ \E s \in Stores : TimerFire(s)
  \/ \E s \in Stores, i \in 1..MaxWrites : WriteDone(s, i)
  \/ \E c \in RaceContents : ExternalWrite(R1, c)
  \/ \E s \in Stores, line \in Lines, text \in Texts, rnd \in Rnds :
       /\ getTotalNoteCountOf(notes[s]) < MaxTimedNotes
       /\ AddNote(s, FileA, line, text, rnd)

\* The first load alone, of files with every choice of optional fields, at
\* any time.
NextLoad ==
  \/ Activate
  \/ \E s \in Stores, i \in 1..MaxLoads, ok \in BOOLEAN : ReadFile(s, i, ok)
  \/ \E s \in Stores, i \in 1..MaxLoads : LoadApply(s, i)
  \/ Tick

\* The active editor moving between workspace roots, with the commands of
\* the comment threads and of the tree.
NextRoots ==
  \/ LoadNext
  \/ \E f \in Files : EditorChange(f)
  \/ \E r \in Roots : ExternalWrite(r, OldFile)
  \/ \E s \in Stores, f \in Files, line \in Lines, text \in Texts, rnd \in Rnds :
       AddNote(s, f, line, text, rnd)
  \/ \E s \in Stores, f \in Files :
       \E noteId \in KnownIds(s) : DeleteNote(s, f, noteId)
  \/ \E s \in Stores, p \in NewPriorities :
       \E noteId \in KnownIds(s) : UpdateNotePriority(s, noteId, p)
  \/ \E s \in Stores, c \in NewCategories :
       \E noteId \in KnownIds(s) : UpdateNoteCategory(s, noteId, c)

\* The comment threads and the tree over time: notes made in the active
\* file and deleted from the tree, debounced saves, the reloads they set off,
\* and the active editor moving between roots.
NextUi ==
  \/ LoadNext
  \/ Tick
  \/ \E s \in Stores : TimerFire(s)
  \/ \E s \in Stores, i \in 1..MaxWrites : WriteDone(s, i)
  \/ \E f \in {FileA, FileB} : EditorChange(f)
  \/ \E s \in Stores, line \in Lines, text \in Texts, rnd \in Rnds :
       /\ getTotalNoteCountOf(notes[s]) < MaxTimedNotes
       /\ AddNote(s, active, line, text, rnd)
  \/ \E s \in Stores, f \in Files :
       \E noteId \in IdsIn(notes[s]) : DeleteNoteFromTree(s, f, noteId)

\* Every command of the threads and of the tree on the files of one root,
\* within one debounce delay.
NextOps ==
  \/ Activate
  \/ \E s \in Stores, i \in 1..MaxLoads : ReadFile(s, i, TRUE)
  \/ \E s \in Stores, i \in 1..MaxLoads : LoadApply(s, i)
  \/ \E s \in Stores, f \in HomeFiles, line \in Lines, text \in Texts, rnd \in Rnds :
       AddNote(s, f, line, text, rnd)
  \/ \E s \in Stores, f \in HomeFiles, text \in NewTexts :
       \E noteId \in KnownIds(s) : UpdateNote(s, f, noteId, text)
  \/ \E s \in Stores, p \in NewPriorities :
       \E noteId \in KnownIds(s) : UpdateNotePriority(s, noteId, p)
  \/ \E s \in Stores, c \in NewCategories :
       \E noteId \in KnownIds(s) : UpdateNoteCategory(s, noteId, c)
  \/ \E s \in Stores, f \in HomeFiles :
       \E noteId \in KnownIds(s) : DeleteNote(s, f, noteId)
  \/ \E s \in Stores, f \in HomeFiles :
       \E noteId \in KnownIds(s) : DeleteNoteFromTree(s, f, noteId)
  \/ \E s \in Stores, i \in 1..MaxNotes : GetNoteItems(s, i)

\* A note made and its priority raised, with the saves and the reloads that
\* follow, every write succeeding.
NextEdit ==
  \/ LoadNext
  \/ Tick
  \/ \E s \in Stores : TimerFire(s)
  \/ \E s \in Stores, i \in 1..MaxWrites : WriteDone(s, i)
  \/ \E s \in Stores, line \in Lines, text \in Texts, rnd \in Rnds :
       /\ getTotalNoteCountOf(notes[s]) < MaxTimedNotes
       /\ AddNote(s, FileA, line, text, rnd)
  \/ \E s \in Stores, p \in NewPriorities :
       \E noteId \in IdsIn(notes[s]) : UpdateNotePriority(s, noteId, p)

\* The comment threads of the files of two roots: opened, filled, deleted
\* and redrawn as the active editor changes.
NextThreads ==
  \/ Activate
  \/ \E s \in Stores, i \in 1..MaxLoads : ReadFile(s, i, TRUE)
  \/ \E s \in Stores, i \in 1..MaxLoads : LoadApply(s, i)
  \/ \E f \in Files : EditorChange(f)
  \/ \E s \in Stores, line \in Lines, text \in Texts, rnd \in Rnds :
       AddNote(s, active, line, text, rnd)
  \/ \E s \in Stores, line \in Lines, text \in Texts, rnd \in Rnds :
       CreateNoteInThread(s, active, line, text, rnd)
  \/ AddNoteAtLine
  \/ \E f \in Files : DiscardNote(f)
  \/ \E f \in Files : DeleteEmptyThread(f)
  \/ \E s \in Stores : \E noteId \in threads : DeleteNote(s, active, noteId)
  \/ \E s \in Stores, f \in Files :
       \E noteId \in IdsIn(notes[s]) : DeleteNoteFromTree(s, f, noteId)

\* The notes of the file shown, their category and priority edited through
\* the two prompts, with deletes from the tree that leave a thread behind.
NextProps ==
  \/ Activate
  \/ \E s \in Stores, i \in 1..MaxLoads : ReadFile(s, i, TRUE)
  \/ \E s \in Stores, i \in 1..MaxLoads : LoadApply(s, i)
  \/ \E s \in Stores, line \in Lines, text \in Texts :
       AddNote(s, active, line, text, 1)
  \/ \E s \in Stores, f \in HomeFiles :
       \E noteId \in IdsIn(notes[s]) : DeleteNoteFromTree(s, f, noteId)
  \/ \E s \in Stores, noteId \in threads :
       \E cur \in CachedNotes(s, noteId),
          pickedCategory \in PickedCategories,
          pickedPriority \in PickedPriorities :
         EditProperties(s, noteId, cur, pickedCategory, pickedPriority)

\* What another process leaves in .notes.json while an export is under way.
ExportContents == {NewFile, EmptyArrayFile, BackslashFile}

\* Exports of the notes of one root, taken while they are added to and
\* while another process rewrites the sidecar file.
NextExport ==
  \/ LoadNext
  \/ \E c \in ExportContents : ExternalWrite(R1, c)
  \/ \E s \in Stores, line \in Lines, text \in Texts :
       /\ dialog = <<>>
       /\ AddNote(s, FileA, line, text, 1)
  \/ \E s \in Stores, fmt \in Formats : BeginExport(s, fmt)
  \/ \E ok \in BOOLEAN : FinishExport(ok)

\* The comment commands on the threads of the file shown: its text saved,
\* its priority and its category set.
NextComment ==
  \/ Activate
  \/ \E s \in Stores, i \in 1..MaxLoads : ReadFile(s, i, TRUE)
  \/ \E s \in Stores, i \in 1..MaxLoads : LoadApply(s, i)
  \/ \E s \in Stores, line \in Lines, text \in Texts :
       AddNote(s, active, line, text, 1)
  \/ \E s \in Stores, noteId \in threads, priority \in Priorities :
       SetPriority(s, noteId, priority)
  \/ \E s \in Stores, noteId \in threads, category \in NewCategories :
       SetCategory(s, noteId, category)
  \/ \E s \in Stores, noteId \in threads, text \in NewTexts :
       SaveNote(s, noteId, text)

\* One Store and no other process: notes added one after another, each
\* save written with success, each write reported by the file watch.
NextPersist ==
  \/ LoadNext
  \/ Tick
  \/ \E s \in Stores : TimerFire(s)
  \/ \E s \in Stores, i \in 1..MaxWrites : WriteDone(s, i)
  \/ \E s \in Stores, line \in Lines, text \in Texts :
       AddNote(s, FileA, line, text, 1)

\* The two prompts of handleEditProperties, open while another process
\* rewrites the sidecar file and the Store reloads it.
NextPrompt ==
  \/ LoadNext
  \/ \E c \in {LaterLineFile, LoweredFile} : ExternalWrite(R1, c)
  \/ \E s \in Stores, noteId \in threads :
       \E cur \in CachedNotes(s, noteId) : BeginEditProperties(s, noteId, cur)
  \/ \E pickedCategory \in PickedCategories, pickedPriority \in PickedPriorities :
       FinishEditProperties(pickedCategory, pickedPriority)

\* The provider's own reactions on the files of the root it was made for,
\* after the load of activate: render, open a thread, create, edit, set
\* priority or category, delete, discard.  Math.random gives each new note
\* an id no note of the Index has.
NextAdapter ==
  \/ Activate
  \/ \E s \in Stores, i \in 1..MaxLoads : ReadFile(s, i, TRUE)
  \/ \E s \in Stores, i \in 1..MaxLoads : LoadApply(s, i)
  \/ \E f \in HomeFiles : EditorChange(f)
  \/ \E s \in Stores, line \in Lines, text \in Texts, rnd \in Rnds :
       /\ generateId(now, rnd) \notin IdsIn(notes[s])
       /\ AddNote(s, active, line, text, rnd)
  \/ \E s \in Stores, line \in Lines, text \in Texts, rnd \in Rnds :
       /\ generateId(now, rnd) \notin IdsIn(notes[s])
       /\ CreateNoteInThread(s, active, line, text, rnd)
  \/ AddNoteAtLine
  \/ DiscardNote(active)
  \/ DeleteEmptyThread(active)
  \/ \E s \in Stores : \E noteId \in threads : DeleteNote(s, active, noteId)
  \/ \E s \in Stores, noteId \in threads, priority \in NewPriorities :
       SetPriority(s, noteId, priority)
  \/ \E s \in Stores, noteId \in threads, category \in NewCategories :
       SetCategory(s, noteId, category)
  \/ \E s \in Stores, noteId \in threads, text \in NewTexts :
       SaveNote(s, noteId, text)

Spec == Init /\ [][Next]_vars

SpecAdapter == InitThreads /\ [][NextAdapter]_vars

SpecPrompt == InitOps /\ [][NextPrompt]_vars

SpecPersist == Init /\ [][NextPersist]_vars

SpecComment == InitComment /\ [][NextComment]_vars

SpecExport == InitThreads /\ [][NextExport]_vars

SpecProps == InitOps /\ [][NextProps]_vars

SpecThreads == InitThreads /\ [][NextThreads]_vars

SpecEdit == Init /\ [][NextEdit]_vars

SpecOps == InitOps /\ [][NextOps]_vars

SpecUi == Init /\ [][NextUi]_vars

SpecRoots == Init /\ [][NextRoots]_vars

SpecSave == Init /\ [][NextSave]_vars

SpecRace == Init /\ [][NextRace]_vars

SpecLoad == InitLoad /\ [][NextLoad]_vars

\* -------------------------------------------------------------- properties
\* The last element of a non-empty sequence.
Last(q) == q[Len(q)]

\* Note n is record r of the file, with the defaults of a load at time t for
\* the optional fields r lacks.
IsMigrated(n, r, t) ==
  /\ DOMAIN n = {"id", "line", "text"} \cup OptionalFields
  /\ n.id = r.id /\ n.line = r.line /\ n.text = r.text
  /\ n.timestamp = (IF Has(r, "timestamp") THEN r.timestamp ELSE t)
  /\ n.author = (IF Has(r, "author") THEN r.author ELSE "Unknown")
  /\ n.priority = (IF Has(r, "priority") THEN r.priority ELSE "medium")
  /\ n.category = (IF Has(r, "category") THEN r.category ELSE "note")

\* Index idx holds what the file's object holds and nothing else: a key for
\* each key of the file, normalised, and under it the records of the file's
\* last entry with that key, migrated at time t.
IsContentOf(idx, content, t) ==
  /\ content.kind = "object"
  /\ MapKeys(idx) =
       {normalizeFilePath(content.entries[i].key) : i \in 1..Len(content.entries)}
  /\ \A i, j \in 1..Len(idx) : idx[i].path = idx[j].path => i = j
  /\ \A i \in 1..Len(idx) :
       LET es == SelectSeq(content.entries,
                           LAMBDA e : normalizeFilePath(e.key) = idx[i].path)
           recs == Last(es).recs
       IN  /\ Len(idx[i].notes) = Len(recs)
           /\ \A j \in 1..Len(recs) : IsMigrated(idx[i].notes[j], recs[j], t)

\* The written content holds Index idx: an entry for every key of idx that
\* has notes, with exactly those notes, and no other entry.
Holds(content, idx) ==
  /\ content.kind = "object"
  /\ {content.entries[i].key : i \in 1..Len(content.entries)} =
       {idx[i].path : i \in {k \in 1..Len(idx) : Len(idx[k].notes) > 0}}
  /\ \A i \in 1..Len(content.entries) :
       /\ content.entries[i].isArray
       /\ content.entries[i].recs = MapGet(idx, content.entries[i].key)

\* C1: in every reachable state every path key of a Store's Index maps to a
\* non-empty note sequence.
C1_NoEmptyKey ==
  \A s \in Live : \A i \in 1..Len(notes[s]) : Len(notes[s][i].notes) > 0

\* C3: writing the Index with a save and loading the written file gives an
\* Index with the same path keys and, under each, the same notes.
C3_RoundTrip ==
  \A s \in Live :
    LET back == LoadResult(notes[s], Serialize(notes[s]), now).notes IN
      /\ MapKeys(back) = MapKeys(notes[s])
      /\ \A k \in MapKeys(back) : MapGet(back, k) = MapGet(notes[s], k)

\* C4: after a file-watch reload of a file that parses and migrates, the
\* Index is exactly the migrated content of the file; what was only in memory
\* is gone.
C4_ReloadReplaces ==
  \A s \in Live :
    (ev.op = "loadOk" /\ ev.s = s /\ "callback" \in ev.fx)
      => IsContentOf(notes[s], basis[s].content, now)

\* An Index holding only a was reloaded from a file holding only c, and now
\* holds only c.
C4_Witness ==
  \E s \in Live :
    /\ ev.op = "loadOk" /\ ev.s = s /\ "callback" \in ev.fx
    /\ basis[s].content = OldFile
    /\ MapKeys(basis[s].idx) = {KeyA}
    /\ MapKeys(notes[s]) = {KeyC}

C6_FailedLoadKeepsIndex ==
  \A s \in Live :
    (ev.op = "loadFailed" /\ ev.s = s) => notes[s] = basis[s].idx

\* C2: every physical write is started by a timer that fires when save() was
\* last called exactly SaveDelay ms ago, with a save() not yet written; it
\* leaves no timer armed, so the burst gets no second write; and what it
\* writes is the Index as the last mutation of the burst left it.
C2_BurstWritten ==
  [][\A s \in Live :
       (ev'.op = "saveNow" /\ ev'.s = s)
         => /\ dirty[s]
            /\ sinceSave[s] = SaveDelay
            /\ timers'[s] = {}
            /\ Len(writes'[s]) = Len(writes[s]) + 1
            /\ basis[s].by = "mut"
            /\ Holds(Last(writes'[s]), basis[s].idx)]_vars

\* The part of C2 that holds: one write per burst, SaveDelay ms after its
\* last mutation, of the Index as that mutation left it unless a reload has
\* replaced the Index since.
C2_Coalescing ==
  [][\A s \in Live :
       (ev'.op = "saveNow" /\ ev'.s = s)
         => /\ dirty[s]
            /\ sinceSave[s] = SaveDelay
            /\ timers'[s] = {}
            /\ Len(writes'[s]) = Len(writes[s]) + 1
            /\ basis[s].by = "mut" => Holds(Last(writes'[s]), basis[s].idx)]_vars

\* A note added at time 0 and edited TickStep ms later is being written, for
\* the first time, SaveDelay ms after the edit.
C2_Witness ==
  \E s \in Live :
    /\ ev.op = "saveNow" /\ ev.s = s
    /\ now = TickStep + SaveDelay
    /\ disk[root[s]] = Absent
    /\ Len(writes[s]) = 1
    /\ Len(writes[s][1].entries) = 1
    /\ Len(writes[s][1].entries[1].recs) = 1
    /\ LET n == writes[s][1].entries[1].recs[1] IN
         n.id[1] = 0 /\ n.text = "edited" /\ n.timestamp = TickStep

\* C7: a write that fails leaves the Index and the timers as they were, puts
\* no write in its place and notifies no listener; and a save after a failed
\* write writes the whole Index as it is then.
C7_WriteFailure ==
  [][\A s \in Live :
       /\ (ev'.op = "writeFailed" /\ ev'.s = s)
            => /\ notes'[s] = notes[s]
               /\ timers'[s] = timers[s]
               /\ Len(writes'[s]) < Len(writes[s])
               /\ "notify" \notin ev'.fx
               /\ "error" \in ev'.fx
       /\ (ev'.op = "saveNow" /\ ev'.s = s /\ lost[s])
            => Holds(Last(writes'[s]), notes[s])]_vars

\* After a failed write and a later mutation, the next save is being written
\* while listeners are registered.
C7_Witness ==
  \E s \in Live :
    /\ ev.op = "saveNow" /\ ev.s = s
    /\ lost[s]
    /\ listeners[s] > 0
    /\ basis[s].by = "mut"
    /\ notes[s] # EmptyIndex

\* C8: once a root change has been handled, no step reads, mutates or writes
\* through the Store of the previous root, and that Store has no armed timer
\* and no file watch.
C8_OldStoreDefunct ==
  \A s \in Live :
    (s # storage /\ loads[storage] = <<>>)
      => /\ ev.s # s
         /\ timers[s] = {}
         /\ ~watching[s]

\* C9: after a load, every note of the Index is its record of the file with
\* medium, note, "Unknown" and the time of the load for exactly the optional
\* fields the record lacks.
C9_MigrationDefaults ==
  \A s \in Live :
    (ev.op = "loadOk" /\ ev.s = s)
      => LET c == basis[s].content IN
           \A i \in 1..Len(c.entries) :
             LET k == normalizeFilePath(c.entries[i].key)
                 recs == c.entries[i].recs
             IN  (\A j \in (i + 1)..Len(c.entries) : normalizeFilePath(c.entries[j].key) # k)
                   => /\ MapHas(notes[s], k)
                      /\ Len(MapGet(notes[s], k)) = Len(recs)
                      /\ \A j \in 1..Len(recs) : IsMigrated(MapGet(notes[s], k)[j], recs[j], now)

\* A record with an author and no timestamp, priority or category has been
\* loaded at a time that is neither 0 nor a timestamp of the file.
C9_Witness ==
  \E s \in Live :
    /\ ev.op = "loadOk" /\ ev.s = s
    /\ now = TickStep
    /\ basis[s].content = Object(<<Entry(KeyC, <<ExtRec(ExtId1, {"author"})>>)>>)
    /\ MapGet(notes[s], KeyC)[1].timestamp = TickStep
    /\ MapGet(notes[s], KeyC)[1].author = "bob"

\* C10: a reload that completes while a save is pending leaves the Index
\* equal to the content it read; and a save that fires with no mutation since
\* a reload writes the Index that reload left, the content of the file read
\* (migrated at the time t of the reload).
C10_ReloadWins ==
  [][\A s \in Live :
       /\ (ev'.op = "loadOk" /\ ev'.s = s /\ "callback" \in ev'.fx /\ dirty[s])
            => IsContentOf(notes'[s], basis'[s].content, now)
       /\ (ev'.op = "saveNow" /\ ev'.s = s /\ basis[s].by = "load")
            => /\ \E t \in 0..now : IsContentOf(notes[s], basis[s].content, t)
               /\ Holds(Last(writes'[s]), notes[s])]_vars

\* A note on a was added, another process's file holding only c was reloaded
\* before the save fired, and the save is writing c alone.
C10_Witness ==
  \E s \in Live :
    /\ ev.op = "saveNow" /\ ev.s = s
    /\ basis[s].by = "load"
    /\ basis[s].content = OldFile
    /\ MapKeys(basis[s].idx) = {KeyA}
    /\ Len(writes[s]) = 1
    /\ {writes[s][1].entries[i].key : i \in 1..Len(writes[s][1].entries)} = {KeyC}

\* The writes of the sidecar file of root r in progress, over all Stores.
RECURSIVE WritesInFlight(_, _)
WritesInFlight(r, n) ==
  IF n = 0 THEN 0
  ELSE (IF root[n] = r THEN Len(writes[n]) ELSE 0) + WritesInFlight(r, n - 1)

\* C11: at most one physical write of a sidecar file is in progress at any
\* time, over all the Stores of the process.
C11_OneWriteInFlight ==
  \A r \in Roots : WritesInFlight(r, nStores) <= 1

\* Nothing of the Stores is pending: no armed timer, no write or load in
\* progress, no watch event waiting, and no write has failed.
Quiet ==
  /\ pc = "active"
  /\ \A s \in Live : /\ timers[s] = {} /\ writes[s] = <<>> /\ loads[s] = <<>>
                     /\ events[s] = 0 /\ ~dirty[s] /\ ~lost[s]

\* The ids of the notes the provider's Store holds for the active file.
ActiveIds == renderNotesForFile(active, notes[provStorage], root[provStorage])

\* C12: once the save of a mutation is done and the change notification has
\* been handled, no thread of the active file shows a note that the Store no
\* longer holds.
C12_ThreadsFollowStore ==
  Quiet => threads \subseteq ActiveIds

\* The part of C12 that holds: while the Store the adapters use is watched
\* (no change of root has disposed its watcher), a thread left behind by a
\* delete from the tree is gone once the save and its reload are done.
C12_WatchedThreadsFollowStore ==
  (Quiet /\ watching[provStorage]) => threads \subseteq ActiveIds

\* A note was deleted from the tree and everything has settled since.
C12_Witness ==
  /\ Quiet /\ watching[provStorage]
  /\ threads = {} /\ notes[provStorage] = EmptyIndex
  /\ disk[R1].kind = "object" /\ disk[R1].entries = <<>>
\* The load() calls of the file watcher in progress among ls.
WatchLoads(ls) == Len(SelectSeq(ls, LAMBDA l : l.kind = "watch"))

\* How many times a step called the callback given to watchFile.
CallbackCalls(e) == Len(SelectSeq(e.calls, LAMBDA c : c = "onExternalChange"))

\* C13: every change event the watcher delivers starts one reload of its own
\* (events are not coalesced), and each reload, once finished, calls every
\* change listener and then the callback, once each.
C13_OneReloadPerChange ==
  [][\A s \in Stores :
       /\ (events'[s] <= events[s] /\ watching'[s] = watching[s])
            => events[s] + WatchLoads(loads[s])
                 = events'[s] + WatchLoads(loads'[s])
                     + (IF ev'.s = s THEN CallbackCalls(ev') ELSE 0)
       /\ (ev'.s = s /\ CallbackCalls(ev') > 0)
            => /\ ev'.calls = [i \in 1..(listeners[s] + 1) |->
                                IF i <= listeners[s] THEN "listener"
                                ELSE "onExternalChange"]
               /\ ev'.op \in {"loadOk", "loadFailed", "loadNoFile"}]_vars

\* A reload set off by a change event has finished and has called a
\* listener and then the callback.
C13_Witness ==
  /\ ev.op = "loadOk" /\ ev.calls = <<"listener", "onExternalChange">>
  /\ basis[ev.s].by = "load" /\ notes[ev.s] # EmptyIndex
\* The keys a call may name: those of the files, under either root.
CallKeys == {KeyOf(f, r, sep) : f \in Files, r \in Roots}

\* The ids of the notes filed under key in m.
IdsUnder(m, key) ==
  IF MapHas(m, key) THEN {MapGet(m, key)[i].id : i \in 1..Len(MapGet(m, key))} ELSE {}

Unsaved(m) == [notes |-> m, saved |-> FALSE]

\* A step of Store s that called no save() left the Index, the debounce
\* timers and the save bookkeeping of every Store as they were.
NoSaveNoChange(ops) ==
  (ev'.op \in ops /\ "save" \notin ev'.fx)
    => /\ ev'.fx = {}
       /\ UNCHANGED <<notes, timers, writes, dirty, sinceSave, disk>>

UpdateOps == {"updateNote", "updateNotePriority", "updateNoteCategory"}

\* C14: updateNote with an id not found under the path, and
\* updateNotePriority and updateNoteCategory with an id found nowhere, leave
\* the Index as it was and do not call save(); a step that did not call
\* save() changes nothing and reports nothing.
C14_UpdateNotFoundNoOp ==
  /\ [](\A s \in Live : \A noteId \in KnownIds(s) \cup {ExtId1, ExtId2} :
         /\ \A key \in CallKeys, text \in NewTexts :
              noteId \notin IdsUnder(notes[s], key)
                => updateNote(notes[s], key, noteId, text, now) = Unsaved(notes[s])
         /\ noteId \notin IdsIn(notes[s])
              => /\ \A p \in Priorities :
                      updateNotePriority(notes[s], noteId, p, now) = Unsaved(notes[s])
                 /\ \A c \in Categories :
                      updateNoteCategory(notes[s], noteId, c, now) = Unsaved(notes[s]))
  /\ [][NoSaveNoChange(UpdateOps)]_vars

\* updateNote was called on a Store that holds notes, with an id that is not
\* under the path named, and nothing was saved.
C14_Witness ==
  /\ ev.op = "updateNote" /\ ev.fx = {}
  /\ notes[ev.s] # EmptyIndex /\ timers[ev.s] = {}
DeleteOps == {"deleteNote", "deleteNoteFromTree"}

\* C15: deleteNote with an id that is not in the path's sequence, or with a
\* path that has no key, leaves the Index as it was and does not call save();
\* so deleting a note a second time gives the Index the first delete gave.
C15_DeleteNotFoundNoOp ==
  /\ [](\A s \in Live : \A key \in CallKeys :
         \A noteId \in KnownIds(s) \cup {ExtId1, ExtId2} :
           LET once == deleteNote(notes[s], key, noteId) IN
           /\ noteId \notin IdsUnder(notes[s], key) => once = Unsaved(notes[s])
           /\ noteId \notin IdsUnder(once.notes, key)
                => deleteNote(once.notes, key, noteId) = Unsaved(once.notes))
  /\ [][NoSaveNoChange(DeleteOps)]_vars

\* A delete found nothing to remove in a Store that holds notes.
C15_Witness ==
  /\ ev.op \in DeleteOps /\ ev.fx = {}
  /\ notes[ev.s] # EmptyIndex
\* A path that begins with ./ and holds no backslash.
IsDotSlashKey(k) ==
  /\ Len(k) > 2 /\ k[1] = "." /\ k[2] = "/"
  /\ \A i \in 1..Len(k) : k[i] # "\\"

\* C16: every key of the Index, and every key of a content being written to
\* the sidecar file, is a forward-slash path that begins with ./, whatever
\* file the note was made on (a file whose name begins with a dot included).
C16_KeysDotSlash ==
  \A s \in Live :
    /\ \A k \in MapKeys(notes[s]) : IsDotSlashKey(k)
    /\ \A i \in 1..Len(writes[s]) :
         \A j \in 1..Len(writes[s][i].entries) : IsDotSlashKey(writes[s][i].entries[j].path)
\* C17: what getAllNotes returns is a copy: a consumer that reorders the
\* notes of a sequence it was handed (the tree does, to list them by line)
\* leaves the Index of the Store as it was.
C17_CopyIsDefensive ==
  [][ev'.op = "getNoteItems" => notes' = notes]_vars

\* The ids of a sequence of notes, in order.
IdSeq(ns) == [i \in 1..Len(ns) |-> ns[i].id]

NotesAt(m, key) == IF MapHas(m, key) THEN MapGet(m, key) ELSE <<>>

LoadOps == {"loadOk", "loadFailed"}

\* C18: each file's sequence stays in insertion order: a step that is not a
\* load leaves the order of the notes of every key as it was, but for one
\* note appended at the end or one note removed; listing the tree changes
\* nothing of the Index.
C18_InsertionOrder ==
  [][\A s \in Stores : \A key \in MapKeys(notes[s]) \cup MapKeys(notes'[s]) :
       LET old == IdSeq(NotesAt(notes[s], key))
           new == IdSeq(NotesAt(notes'[s], key))
       IN  ev'.op \notin LoadOps
             => \/ new = old
                \/ Len(new) = Len(old) + 1 /\ SubSeq(new, 1, Len(old)) = old
                \/ \E i \in 1..Len(old) : new = RemoveAt(old, i)]_vars
\* C19: creating a note appends exactly one note, with the line and the text
\* given, category note and priority low, to the sequence of a key that is
\* the file's path relative to the root with a leading ./, the key under
\* which the debounced save then writes it.
C19_CreatedNoteFiled ==
  [][ev'.op = "addNote"
       => \E key \in MapKeys(notes'[ev'.s]) :
            LET old == NotesAt(notes[ev'.s], key)
                new == NotesAt(notes'[ev'.s], key)
            IN  /\ IsDotSlashKey(key)
                /\ Len(new) = Len(old) + 1
                /\ SubSeq(new, 1, Len(old)) = old
                /\ Last(new).line \in Lines /\ Last(new).text \in Texts
                /\ Last(new).category = "note" /\ Last(new).priority = "low"
                /\ getTotalNoteCountOf(notes'[ev'.s]) = getTotalNoteCountOf(notes[ev'.s]) + 1]_vars
\* The notes of Index m that carry id noteId.
NotesWithId(m, noteId) ==
  {m[p[1]].notes[p[2]] : p \in {q \in (1..Len(m)) \X (1..MaxNotes) :
                                   /\ q[2] <= Len(m[q[1]].notes)
                                   /\ m[q[1]].notes[q[2]].id = noteId}}

\* Store s has reloaded its file and nothing of it is pending.
Reloaded(s) ==
  /\ basis[s].by = "load"
  /\ timers[s] = {} /\ writes[s] = <<>> /\ loads[s] = <<>> /\ events[s] = 0
  /\ ~dirty[s] /\ ~lost[s]

\* C20: once the priority of a note was set to high, the save has run and the
\* Store has reloaded the file, the note has priority high and a timestamp
\* later than the time of its creation (the time its id carries).
C20_PriorityAfterReload ==
  \A s \in Live : Reloaded(s) =>
    \A noteId \in raised[s] :
      /\ NotesWithId(notes[s], noteId) # {}
      /\ \A n \in NotesWithId(notes[s], noteId) :
           n.priority = "high" /\ n.timestamp > noteId[1]

\* The priority half of C20 alone.
C20_PriorityKept ==
  \A s \in Live : Reloaded(s) =>
    \A noteId \in raised[s] :
      /\ NotesWithId(notes[s], noteId) # {}
      /\ \A n \in NotesWithId(notes[s], noteId) : n.priority = "high"

\* The timestamp of a note is never earlier than its creation.
C20_TimestampNotEarlier ==
  \A s \in Live : \A noteId \in IdsIn(notes[s]) :
    \A n \in NotesWithId(notes[s], noteId) : noteId[1] >= 0 => n.timestamp >= noteId[1]
\* Every note of Index m satisfies P.
AllNotes(m, P(_)) ==
  \A i \in 1..Len(m) : \A j \in 1..Len(m[i].notes) : P(m[i].notes[j])

\* C21: every note of the Index has one of the five categories and one of
\* the three priorities, whatever file was loaded.
C21_EnumsValid ==
  \A s \in Live :
    AllNotes(notes[s], LAMBDA n : n.category \in Categories /\ n.priority \in Priorities)
\* C22: no two notes of the Index, of one file or of two, have the same id.
C22_IdsUnique ==
  \A s \in Live : Cardinality(IdsIn(notes[s])) = getTotalNoteCountOf(notes[s])
\* C23: a step that called renderNotesForFile leaves the tracked threads of
\* the file shown carrying exactly the ids of the notes the provider's Store
\* holds for it (none when it holds none), and leaves no thread it made
\* untracked.
C23_RenderMatchesStore ==
  [][("render" \in ev'.fx /\ provStorage' > 0)
       => LET ns == getNotesForFile(notes'[provStorage'], active', root'[provStorage'])
          IN  /\ threads' = {ns[i].id : i \in 1..Len(ns)}
              /\ loose' = loose]_vars
\* C24: after clearAllThreads no thread the provider has made is left
\* undisposed, whichever way it was opened; after clearThreadsForFile(f), the
\* first step of a render, none of file f is.
C24_TeardownComplete ==
  [][/\ "clearAllThreads" \in ev'.fx => \A f \in Files : loose'[f] = 0
     /\ ("render" \in ev'.fx /\ renderLeak(active', notes'[provStorage'], root'[provStorage']) = 0)
          => loose'[active'] = 0]_vars
\* C25: the delete action on a thread that carries an id untracks and
\* disposes exactly that thread whether or not the Store held the id, and the
\* Index changes only if the id was that of a note stored under the thread's
\* file; on a thread without an id the thread is disposed and the Store is
\* not touched.
C25_DeleteAlwaysDisposes ==
  [][/\ ev'.op = "deleteNote"
          => /\ threads' \subseteq threads
             /\ Cardinality(threads \ threads') = 1
             /\ loose' = loose
             /\ notes' # notes
                  => (threads \ threads')
                       \subseteq IdsUnder(notes[ev'.s], KeyOf(active, root[ev'.s], sep))
     /\ ev'.op = "deleteEmptyThread"
          => /\ notes' = notes
             /\ threads' = threads
             /\ \E f \in Files : loose' = [loose EXCEPT ![f] = @ - 1]]_vars

\* A thread whose note the Store no longer held has been deleted: the Store
\* was left alone and the thread is gone.
C25_Witness ==
  /\ ev.op = "deleteNote"
  /\ ev.fx = {}
  /\ pc = "active"
  /\ threads = {}
  /\ getTotalNoteCountOf(notes[provStorage]) > 0
\* C26: in handleEditProperties a prompt that was dismissed leaves the Store
\* uncalled and unchanged, even when the category picked first differs; past
\* both prompts updateNoteCategory is called only if the picked category
\* differs from the comment's, updateNotePriority only if the picked priority
\* does, and when neither differs no call is made and the comment is not
\* refreshed.
C26_EditPropertiesWrites ==
  [][ev'.op = "editProperties"
       => LET p == ev'.picked
              c == ev'.current
              quiet == /\ ev'.calls = <<>>
                       /\ ev'.fx = {}
                       /\ notes' = notes
                       /\ timers' = timers
                       /\ dirty' = dirty
          IN  /\ (p.category = Cancelled \/ p.priority = Cancelled) => quiet
              /\ (p.category = c.category /\ p.priority = c.priority) => quiet
              /\ (\E i \in 1..Len(ev'.calls) : ev'.calls[i] = "updateNoteCategory")
                    => p.category # c.category
              /\ (\E i \in 1..Len(ev'.calls) : ev'.calls[i] = "updateNotePriority")
                    => p.priority # c.priority]_vars

\* The second prompt was dismissed after a category other than the note's
\* had been picked at the first.
C26_Witness ==
  /\ ev.op = "editProperties"
  /\ ev.picked.category \in Categories
  /\ ev.picked.category # ev.current.category
  /\ ev.picked.priority = Cancelled
  /\ \E j \in 1..Len(getNotesForFile(notes[ev.s], active, root[ev.s])) :
       getNotesForFile(notes[ev.s], active, root[ev.s])[j].id \in threads
\* C27: the tree lists exactly the paths of the Index that hold at least
\* one note, each once, in ascending path order, and under each path the
\* notes the Index holds for it, each once, in ascending line order.
C27_TreeListing ==
  \A s \in Live :
    LET m == notes[s]
        L == TreeListing(m)
    IN  /\ {L[i].path : i \in 1..Len(L)}
             = {m[i].path : i \in {k \in 1..Len(m) : Len(m[k].notes) > 0}}
        /\ \A i, j \in 1..Len(L) : i < j => PathBefore(L[i].path, L[j].path)
        /\ \A i \in 1..Len(L) :
             /\ Len(L[i].notes) = Len(MapGet(m, L[i].path))
             /\ {L[i].notes[j] : j \in 1..Len(L[i].notes)}
                  = {MapGet(m, L[i].path)[j] : j \in 1..Len(L[i].notes)}
             /\ \A j, k \in 1..Len(L[i].notes) :
                  j < k => L[i].notes[j].line <= L[i].notes[k].line

\* The Index holds, for one path, a note on a later line before a note on an
\* earlier one, and the listing shows them the other way round.
C27_Witness ==
  \E s \in Live : \E i \in 1..Len(notes[s]) :
    /\ Len(notes[s][i].notes) = 2
    /\ notes[s][i].notes[1].line > notes[s][i].notes[2].line
    /\ TreeListing(notes[s])[1].notes[1] = notes[s][i].notes[2]
\* The sum of the counts a report gives for the values of V.
RECURSIVE SumCounts(_, _)
SumCounts(counts, V) ==
  IF V = {} THEN 0
  ELSE LET v == CHOOSE x \in V : TRUE IN counts[v] + SumCounts(counts, V \ {v})

\* How often note n is listed under path k in the listing L.
TimesListed(L, k, n) ==
  Cardinality({p \in NotePositions(L) : L[p[1]].path = k /\ L[p[1]].notes[p[2]] = n})

\* C28: in a report that was written, the three priority counts sum to the
\* total the report gives, the five category counts are there and sum to
\* the same total, and the per-file listing holds every note of the Index,
\* under its path, as often as the Index holds it, and nothing else.
C28_ExportComplete ==
  [][(ev'.op = "export" /\ "written" \in ev'.fx)
       => LET r == ev'.report
              idx == notes'[ev'.s]
          IN  /\ SumCounts(r.summary, Priorities) = r.total
              /\ DOMAIN r.categories = Categories
              /\ SumCounts(r.categories, Categories) = r.total
              /\ r.total = getTotalNoteCountOf(idx)
              /\ \A p \in NotePositions(idx) :
                   TimesListed(r.listing, idx[p[1]].path, idx[p[1]].notes[p[2]])
                     = TimesListed(idx, idx[p[1]].path, idx[p[1]].notes[p[2]])
              /\ \A p \in NotePositions(r.listing) :
                   TimesListed(idx, r.listing[p[1]].path, r.listing[p[1]].notes[p[2]]) > 0]_vars

\* C28 for a Markdown report made while the Index stayed what it was when
\* the export began.
C28_MarkdownOfUnchangedIndex ==
  [][(/\ ev'.op = "export"
      /\ "written" \in ev'.fx
      /\ ev'.report.fmt = "markdown"
      /\ dialog[1].allNotes = notes[ev'.s])
       => LET r == ev'.report
              idx == notes'[ev'.s]
          IN  /\ SumCounts(r.summary, Priorities) = r.total
              /\ SumCounts(r.categories, Categories) = r.total
              /\ \A p \in NotePositions(idx) :
                   TimesListed(r.listing, idx[p[1]].path, idx[p[1]].notes[p[2]])
                     = TimesListed(idx, idx[p[1]].path, idx[p[1]].notes[p[2]])]_vars

\* C29: an export begun while the Index holds no note shows the warning and
\* opens no dialog, and no report is written of an Index without a note.
C29_NoNotesNoReport ==
  [][/\ (ev'.op = "exportBegin" /\ getTotalNoteCountOf(notes[ev'.s]) = 0)
          => ("warning" \in ev'.fx /\ dialog' = <<>>)
     /\ (ev'.op = "export" /\ "written" \in ev'.fx)
          => getTotalNoteCountOf(dialog[1].allNotes) > 0]_vars
\* A JSON object all of whose keys map to arrays that are not empty.
NoEmptyArray(content) ==
  /\ content.kind = "object"
  /\ \A k \in 1..Len(content.entries) :
       content.entries[k].isArray /\ Len(content.entries[k].recs) > 0

\* C30: the content of every writeFile call of a Store, and the sidecar file
\* as a completed write leaves it, is an object whose keys all map to
\* non-empty arrays, whatever empty sequences the Index holds.
C30_NoEmptyArrayWritten ==
  \A s \in Live :
    /\ \A i \in 1..Len(writes[s]) : NoEmptyArray(writes[s][i])
    /\ (ev.op = "writeDone" /\ ev.s = s) => NoEmptyArray(disk[root[s]])

\* saveNow has just run on an Index that holds a path with no note.
C30_Witness ==
  /\ ev.op = "saveNow"
  /\ Len(writes[ev.s]) > 0
  /\ \E i \in 1..Len(notes[ev.s]) : Len(notes[ev.s][i].notes) = 0
\* C31: deleteNote with the id of a note of the path removes that note and
\* no other, leaves the path's other notes in the order they were in, drops
\* the path's key exactly when no note of it is left, leaves every other
\* path with its sequence and its place, and calls save(), which arms the
\* debounce timer.
C31_DeleteFrame ==
  /\ [](\A s \in Live : \A key \in CallKeys : \A noteId \in IdsUnder(notes[s], key) :
         LET old == MapGet(notes[s], key)
             r == deleteNote(notes[s], key, noteId)
             new == IF MapHas(r.notes, key) THEN MapGet(r.notes, key) ELSE <<>>
         IN  /\ r.saved
             /\ MapHas(r.notes, key) <=> Len(old) > 1
             /\ Len(new) = Len(old) - 1
             /\ \E i \in 1..Len(old) :
                  /\ old[i].id = noteId
                  /\ \A j \in 1..(i - 1) : new[j] = old[j]
                  /\ \A j \in i..Len(new) : new[j] = old[j + 1]
             /\ MapDelete(r.notes, key) = MapDelete(notes[s], key))
  /\ [][(ev'.op \in DeleteOps /\ "save" \in ev'.fx)
          => /\ timers'[ev'.s] # {}
             /\ dirty'[ev'.s]
             /\ getTotalNoteCountOf(notes'[ev'.s]) = getTotalNoteCountOf(notes[ev'.s]) - 1]_vars

\* A delete has removed one note of two: the other is still in the Index and
\* a save is pending.
C31_Witness ==
  /\ ev.op \in DeleteOps
  /\ "save" \in ev.fx
  /\ getTotalNoteCountOf(notes[ev.s]) = 1
  /\ timers[ev.s] # {}
\* m2 has the paths of m1, in their order, each with as many notes.
SameShape(m1, m2) ==
  /\ Len(m1) = Len(m2)
  /\ \A i \in 1..Len(m1) :
       m1[i].path = m2[i].path /\ Len(m1[i].notes) = Len(m2[i].notes)

\* The positions at which the notes of m1 and m2 differ.
ChangedNotes(m1, m2) ==
  {p \in NotePositions(m1) : m1[p[1]].notes[p[2]] # m2[p[1]].notes[p[2]]}

\* m2 is m1 but for at most one note, which differs at most in `field` and
\* in its timestamp.
OnlyFieldChanged(m1, m2, field) ==
  /\ SameShape(m1, m2)
  /\ Cardinality(ChangedNotes(m1, m2)) <= 1
  /\ \A p \in ChangedNotes(m1, m2) :
       \A f \in DOMAIN m1[p[1]].notes[p[2]] \ {field, "timestamp"} :
         m1[p[1]].notes[p[2]][f] = m2[p[1]].notes[p[2]][f]

\* The field each comment command is for.
FieldOf(op) ==
  CASE op = "saveNote" -> "text"
    [] op = "setPriority" -> "priority"
    [] op = "setCategory" -> "category"

CommentOps == {"saveNote", "setPriority", "setCategory"}

C32_StoreUpdateFrame ==
  \A s \in Live : \A noteId \in IdsIn(notes[s]) :
    /\ \A key \in CallKeys, text \in NewTexts :
         OnlyFieldChanged(notes[s], updateNote(notes[s], key, noteId, text, now).notes, "text")
    /\ \A p \in Priorities :
         OnlyFieldChanged(notes[s], updateNotePriority(notes[s], noteId, p, now).notes,
                          "priority")
    /\ \A c \in Categories :
         OnlyFieldChanged(notes[s], updateNoteCategory(notes[s], noteId, c, now).notes,
                          "category")
\* C33: with no other process and no failing write, a note that is in the
\* Index stays in it through every step that is no delete, the reloads the
\* Store's own writes set off included, so that the saves that follow write
\* it to the sidecar file.
C33_AddedNotesKept ==
  [][\A s \in Live :
       ev'.op \notin DeleteOps => IdsIn(notes[s]) \subseteq IdsIn(notes'[s])]_vars
\* The Stores dispose() was called on: every Store but the one the module
\* variable `storage` holds, which replaced them.
Disposed == {s \in Live : s # storage}

\* The steps in which a Store starts a writeFile, has one completed, applies
\* a reload or calls its change listeners.
StoreIo(e) ==
  \/ e.op \in {"saveNow", "writeDone", "loadOk", "loadFailed"}
  \/ "notify" \in e.fx

\* C34: a Store that was disposed starts no writeFile, completes none,
\* reloads nothing and calls no listener from then on, whatever timer, write
\* or load it had pending when it was disposed.
C34_DisposedStoreSilent ==
  [][\A s \in Disposed : ~(ev'.s = s /\ ev' # ev /\ StoreIo(ev'))]_vars
\* C35: when handleEditProperties ends with both prompts answered, every
\* note the Store holds with the id on the thread has the category and the
\* priority that were picked, whatever happened to the note while the
\* prompts were open.
C35_PicksStored ==
  [][(/\ ev'.op = "editProperties"
      /\ prompt # <<>>
      /\ ev'.picked.category # Cancelled
      /\ ev'.picked.priority # Cancelled)
       => \A n \in NotesWithId(notes'[ev'.s], ev'.noteId) :
            n.category = ev'.picked.category /\ n.priority = ev'.picked.priority]_vars
\* The notes the provider's Store holds for the file shown.
ShownNotes == getNotesForFile(notes[provStorage], active, root[provStorage])

\* C36: once activated, after every reaction of the provider the ids on the
\* tracked threads of the file shown are the ids of the notes its Store
\* holds for that file, and no two of those notes have one id, so that each
\* id is on one thread and each thread shows one note.
C36_ThreadsMatchNotes ==
  pc = "active"
    => /\ threads = {ShownNotes[i].id : i \in 1..Len(ShownNotes)}
       /\ Cardinality(threads) = Len(ShownNotes)

\* C36 for an Index whose notes have the priorities and categories the
\* extension knows and ids of their own.
C36_ThreadsMatchValidNotes ==
  (/\ pc = "active"
   /\ \A i \in 1..Len(ShownNotes) : ~CommentThrows(ShownNotes[i])
   /\ Cardinality(IdsIn(notes[provStorage])) = getTotalNoteCountOf(notes[provStorage]))
    => /\ threads = {ShownNotes[i].id : i \in 1..Len(ShownNotes)}
       /\ Cardinality(threads) = Len(ShownNotes)
\* C37: the total a written report gives is the sum of its three priority
\* counts and the number of notes in its per-file listing, whatever happened
\* to the Index while the save dialog was open.
C37_ExportSnapshot ==
  [][(ev'.op = "export" /\ "written" \in ev'.fx)
       => /\ ev'.report.total = SumCounts(ev'.report.summary, Priorities)
          /\ ev'.report.total = Cardinality(NotePositions(ev'.report.listing))]_vars

\* What other processes write in quick succession.
BurstContents == {OldFile, NewFile, LaterLineFile}

\* Change events in quick succession: each starts a reload while earlier
\* ones are still reading, and no note is touched in memory.
NextBurst ==
  \/ Activate
  \/ \E s \in Stores, i \in 1..MaxBurst : ReadFile(s, i, TRUE)
  \/ \E s \in Stores, i \in 1..MaxBurst : LoadApply(s, i)
  \/ \E s \in Stores : WatchEventWithin(s, MaxBurst)
  \/ \E c \in BurstContents : ExternalWrite(R1, c)

SpecBurst == Init /\ [][NextBurst]_vars

\* Every change event of Store s has been handled and every reload it
\* started has completed.
ReloadsDone(s) == watching[s] /\ events[s] = 0 /\ loads[s] = <<>>

\* C38: when the reloads set off by a burst of change events have all
\* completed, the Index equals the migrated content of the sidecar file as it
\* is then, whatever the order in which the reloads finished.
C38_LastContentWins ==
  \A s \in Live :
    (ReloadsDone(s) /\ ev.op = "loadOk" /\ ev.s = s /\ "callback" \in ev.fx)
      => \E t \in 0..now : IsContentOf(notes[s], disk[root[s]], t)


\* The active editor moving between files of the workspace folders and a
\* file of none, and being closed, with the loads that follow.
NextWorkspace ==
  \/ LoadNext
  \/ \E f \in Files \cup {FileOut} : EditorChange(f)
  \/ EditorClosed
  \/ \E r \in Roots : ExternalWrite(r, OldFile)

SpecWorkspace == Init /\ [][NextWorkspace]_vars

\* The step called the workspace manager's change callbacks.
Notified(e) == \E i \in 1..Len(e.calls) : e.calls[i] = "onChange"

\* C39: when the active editor changes, the workspace manager calls its
\* callbacks exactly if there is an editor and the root of its file (no root
\* included) differs from the recorded one, and it has recorded the new root
\* before it calls them; otherwise the recorded root stays.  The Store is
\* replaced exactly if the callbacks are called with a defined root, by a
\* newly constructed Store of that root, the old one being disposed; no other
\* step changes the recorded root or the Store.
C39_RootChangeNotified ==
  [][IF active' # active
     THEN LET differs == active' # NoEditor /\ RootOf(active') # wsRoot IN
          /\ Notified(ev') <=> differs
          /\ differs => /\ ev'.calls = <<"setRoot", "onChange">>
                        /\ wsRoot' = RootOf(active')
          /\ ~differs => wsRoot' = wsRoot
          /\ storage' # storage <=> (differs /\ RootOf(active') # NoRoot)
          /\ storage' # storage
               => /\ storage' = nStores + 1
                  /\ nStores' = nStores + 1
                  /\ root'[storage'] = RootOf(active')
                  /\ notes'[storage'] = EmptyIndex
                  /\ ~watching'[storage]
     ELSE wsRoot' = wsRoot /\ storage' = storage]_vars

\* The editor went from a file of the first root to a file of no root and
\* back: the callbacks were called again and a second Store of the first
\* root replaced the first.
C39_Witness ==
  /\ Notified(ev)
  /\ active \in HomeFiles
  /\ wsRoot = R1
  /\ storage = 2
  /\ root[1] = R1 /\ root[2] = R1
  /\ ~watching[1]

====
